---- MODULE Spec2Model ----
(***************************************************************************)
(* cnc-ctrl: the streaming protocol engine that drives a GRBL-class        *)
(* controller.  The repository holds several generations of the engine:    *)
(*   - the Controller engine (controller.rs, controller/serial.rs,         *)
(*     controller/message.rs, main.rs): two rendezvous channels, a send    *)
(*     worker polling them, a receive worker routing lines, and            *)
(*     buffered_stream doing the flow control in the caller;               *)
(*   - the Connection engine (connection.rs, connection/command.rs):       *)
(*     one send worker owning the queues `queued` and `sent`.              *)
(*   - the Task engine (task.rs): Stream::execute, written against a       *)
(*     connection whose send returns a receiver per block.                 *)
(* A behaviour of the model runs one of them (variable engine).  SpecStop  *)
(* is the Controller engine with a ctrlc during a wait for a report.       *)
(* Text is modelled as tuples of one-character strings, the wire as a      *)
(* tuple of byte values.                                                   *)
(***************************************************************************)
EXTENDS Integers, Sequences, FiniteSets, TLC

(***************************************************************************)
(* Text helpers (Rust str methods used by the code)                        *)
(***************************************************************************)
Letters == {"A","B","C","D","E","F","G","H","I","J","K","L","M","N","O","P","Q",
            "R","S","T","U","V","W","X","Y","Z",
            "a","b","c","d","e","f","g","h","i","j","k","l","m","n","o","p","q",
            "r","s","t","u","v","w","x","y","z"}

Digits == {"0","1","2","3","4","5","6","7","8","9"}

Whitespace == {" ", "\t", "\r", "\n"}

DigitVal(c) ==
    CASE c = "0" -> 0 [] c = "1" -> 1 [] c = "2" -> 2 [] c = "3" -> 3 [] c = "4" -> 4
      [] c = "5" -> 5 [] c = "6" -> 6 [] c = "7" -> 7 [] c = "8" -> 8 [] c = "9" -> 9

\* s[a..b], empty when a > b
Slice(s, a, b) == [i \in 1..(IF b >= a THEN b - a + 1 ELSE 0) |-> s[a + i - 1]]

\* str::starts_with
StartsWith(s, p) == Len(s) >= Len(p) /\ \A i \in 1..Len(p) : s[i] = p[i]

\* str::ends_with
EndsWith(s, p) ==
    Len(s) >= Len(p) /\ \A i \in 1..Len(p) : s[Len(s) - Len(p) + i] = p[i]

\* str::contains
Contains(s, p) ==
    \E k \in 0..(Len(s) - Len(p)) : \A i \in 1..Len(p) : s[k + i] = p[i]

\* str::strip_prefix / strip_suffix, applied where the code has checked the match
StripPrefix(s, p) == Slice(s, Len(p) + 1, Len(s))

StripSuffix(s, p) == Slice(s, 1, Len(s) - Len(p))

\* str::trim
Trim(s) ==
    LET keep == {i \in 1..Len(s) : s[i] \notin Whitespace}
        Min(S) == CHOOSE x \in S : \A y \in S : x <= y
        Max(S) == CHOOSE x \in S : \A y \in S : x >= y
    IN  IF keep = {} THEN <<>> ELSE Slice(s, Min(keep), Max(keep))

\* str::split(sep) for a one-character separator
RECURSIVE Split(_, _)
Split(s, sep) ==
    LET hits == {i \in 1..Len(s) : s[i] = sep}
    IN  IF hits = {} THEN <<s>>
        ELSE LET k == CHOOSE i \in hits : \A j \in hits : i <= j
             IN  <<Slice(s, 1, k - 1)>> \o Split(Slice(s, k + 1, Len(s)), sep)

AllDigits(s) == Len(s) >= 1 /\ \A i \in 1..Len(s) : s[i] \in Digits

RECURSIVE DecValue(_)
DecValue(s) ==
    IF s = <<>> THEN 0 ELSE 10 * DecValue(Slice(s, 1, Len(s) - 1)) + DigitVal(s[Len(s)])

\* str::parse::<u8>(): an optional '+', then digits, value at most 255; -1 is Err
ParseU8(s) ==
    LET body == IF Len(s) >= 1 /\ s[1] = "+" THEN Slice(s, 2, Len(s)) ELSE s
    IN  IF AllDigits(body) /\ DecValue(body) <= 255 THEN DecValue(body) ELSE -1

\* the regex [+-]?\d+\.\d+ matched against a whole string
IsFloat(s) ==
    LET body == IF Len(s) >= 1 /\ s[1] \in {"+", "-"} THEN Slice(s, 2, Len(s)) ELSE s
        parts == Split(body, ".")
    IN  Len(parts) = 2 /\ AllDigits(parts[1]) /\ AllDigits(parts[2])

(***************************************************************************)
(* Message codec of the Controller engine (controller/message.rs)          *)
(***************************************************************************)
NoText == <<>>

\* one shape for every parsed value, so that values of all variants compare
Msg(kind, tag, code, raw, mpos) ==
    [kind |-> kind, tag |-> tag, code |-> code, raw |-> raw, mpos |-> mpos]

ParseErr == Msg("Err", "", 0, NoText, <<>>)

\* impl From<&str> for Status
StatusFrom(word) ==
    CASE word = <<"I","d","l","e">> -> "Idle"
      [] word = <<"H","o","m","e">> -> "Home"
      [] word = <<"J","o","g">> -> "Jog"
      [] OTHER -> "Unknown"

\* the regex ^\[PRB:f,f,f,f,f:[01]\]$ with f = [+-]?\d+\.\d+
ProbeRegexMatches(value) ==
    /\ StartsWith(value, <<"[","P","R","B",":">>)
    /\ EndsWith(value, <<"]">>)
    /\ LET inner == Slice(value, 6, Len(value) - 1)
           parts == Split(inner, ":")
       IN  /\ Len(parts) = 2
           /\ parts[2] \in {<<"0">>, <<"1">>}
           /\ LET coords == Split(parts[1], ",")
              IN  Len(coords) = 5 /\ \A i \in 1..5 : IsFloat(coords[i])

\* impl TryFrom<&str> for Response
ResponseTryFrom(value) ==
    IF Contains(value, <<"o","k">>) THEN Msg("Response", "Ok", 0, NoText, <<>>)
    ELSE IF StartsWith(value, <<"e","r","r","o","r",":">>)
    THEN LET code == ParseU8(StripPrefix(value, <<"e","r","r","o","r",":">>))
         IN  IF code >= 0 THEN Msg("Response", "Error", code, NoText, <<>>) ELSE ParseErr
    ELSE IF StartsWith(value, <<"[","P","R","B",":">>)
    THEN IF ProbeRegexMatches(value)
         THEN LET coords == Split(Split(Slice(value, 6, Len(value) - 1), ":")[1], ",")
              IN  Msg("Response", "Probe", 0, value, <<coords[1], coords[2], coords[3]>>)
         ELSE ParseErr
    ELSE ParseErr

\* the regex ^<([A-Za-z]+)(\|[^>]*)*>$
ReportRegexMatches(value) ==
    /\ Len(value) >= 3
    /\ value[1] = "<"
    /\ value[Len(value)] = ">"
    /\ LET content == Slice(value, 2, Len(value) - 1)
           word == Split(content, "|")[1]
       IN  /\ Len(word) >= 1
           /\ \A i \in 1..Len(word) : word[i] \in Letters
           /\ \A i \in 1..Len(content) : content[i] # ">"

\* the MPos field of a report: the last MPos: part with at least three coordinates
RECURSIVE ReportMpos(_, _)
ReportMpos(parts, acc) ==
    IF parts = <<>> THEN acc
    ELSE LET part == Head(parts)
             coords == Split(StripPrefix(part, <<"M","P","o","s",":">>), ",")
         IN  IF StartsWith(part, <<"M","P","o","s",":">>) /\ Len(coords) >= 3
             THEN ReportMpos(Tail(parts), <<coords[1], coords[2], coords[3]>>)
             ELSE ReportMpos(Tail(parts), acc)

\* impl TryFrom<&str> for Report (tag = status; mpos = <<>> stands for None)
ReportTryFrom(value) ==
    IF ~ReportRegexMatches(value) THEN ParseErr
    ELSE LET parts == Split(Slice(value, 2, Len(value) - 1), "|")
         IN  Msg("Push", StatusFrom(parts[1]), 0, value, ReportMpos(Tail(parts), <<>>))

\* impl TryFrom<&str> for Push
PushTryFrom(value) == ReportTryFrom(value)

\* impl From<&str> for Message
MessageFrom(value) ==
    IF ResponseTryFrom(value).kind # "Err" THEN ResponseTryFrom(value)
    ELSE IF PushTryFrom(value).kind # "Err" THEN PushTryFrom(value)
    ELSE Msg("Unknown", "", 0, value, <<>>)

(***************************************************************************)
(* Message codec inlined in controller.rs (and message.rs)                 *)
(***************************************************************************)
\* `code.parse().unwrap()` on a code that is no u8: the thread panics
Panic(value) == Msg("Panic", "", 0, value, <<>>)

\* impl From<&str> for Message of controller.rs
InlineMessageFrom(value) ==
    IF Contains(value, <<"o","k">>) THEN Msg("Response", "Ok", 0, NoText, <<>>)
    ELSE IF StartsWith(value, <<"e","r","r","o","r",":">>)
    THEN LET code == ParseU8(StripPrefix(value, <<"e","r","r","o","r",":">>))
         IN  IF code >= 0 THEN Msg("Response", "Error", code, NoText, <<>>)
             ELSE Panic(value)
    ELSE IF ReportRegexMatches(value)
    THEN Msg("Push", "Report", 0, value, <<>>)
    ELSE Msg("Unknown", "", 0, value, <<>>)

(***************************************************************************)
(* Message codec of the Connection engine (connection/message.rs)          *)
(***************************************************************************)
\* the largest u8
MaxCode == 255

DigitChars == <<"0", "1", "2", "3", "4", "5", "6", "7", "8", "9">>

\* `{}` of a u8: its decimal digits
U8Text(n) ==
    IF n < 10 THEN <<DigitChars[n + 1]>>
    ELSE IF n < 100 THEN <<DigitChars[(n \div 10) + 1], DigitChars[(n % 10) + 1]>>
    ELSE <<DigitChars[(n \div 100) + 1], DigitChars[((n \div 10) % 10) + 1],
           DigitChars[(n % 10) + 1]>>

ErrorPrefix == <<"e","r","r","o","r",":">>

AlarmPrefix == <<"A","L","A","R","M",":">>

\* the regexes ^error:(\d+)$ and ^ALARM:(\d+)$
CodeRegexMatches(prefix, value) ==
    StartsWith(value, prefix) /\ AllDigits(StripPrefix(value, prefix))

\* impl TryFrom<&str> for Response of connection/message.rs
ConnResponseTryFrom(value) ==
    IF value = <<"o","k">> THEN Msg("Response", "Ok", 0, NoText, <<>>)
    ELSE IF CodeRegexMatches(ErrorPrefix, value)
    THEN LET code == ParseU8(StripPrefix(value, ErrorPrefix))
         IN  IF code >= 0 THEN Msg("Response", "Error", code, NoText, <<>>) ELSE ParseErr
    ELSE ParseErr

\* the regex ^<([^,|>]+)(?:\|([^>]*))?>$
ConnReportRegexMatches(value) ==
    /\ Len(value) >= 3
    /\ value[1] = "<"
    /\ value[Len(value)] = ">"
    /\ LET content == Slice(value, 2, Len(value) - 1)
           word == Split(content, "|")[1]
       IN  /\ Len(word) >= 1
           /\ \A i \in 1..Len(word) : word[i] # ","
           /\ \A i \in 1..Len(content) : content[i] # ">"

FeedbackKinds == {<<"M","S","G">>, <<"G","C">>, <<"P","R","B">>, <<"T","L","O">>}

\* the regex ^\[(MSG|GC|PRB|TLO|G\d+):[^\]]*\]$
FeedbackRegexMatches(value) ==
    /\ Len(value) >= 2
    /\ value[1] = "["
    /\ value[Len(value)] = "]"
    /\ LET content == Slice(value, 2, Len(value) - 1)
           parts == Split(content, ":")
       IN  /\ Len(parts) >= 2
           /\ \/ parts[1] \in FeedbackKinds
              \/ Len(parts[1]) >= 2 /\ parts[1][1] = "G"
                 /\ AllDigits(Slice(parts[1], 2, Len(parts[1])))
           /\ \A i \in 1..Len(content) : content[i] # "]"

\* impl TryFrom<&str> for Push of connection/message.rs (mpos holds the fields of
\* the Report or of the Feedback)
ConnPushTryFrom(value) ==
    IF CodeRegexMatches(AlarmPrefix, value)
    THEN LET code == ParseU8(StripPrefix(value, AlarmPrefix))
         IN  IF code >= 0 THEN Msg("Push", "Alarm", code, NoText, <<>>) ELSE ParseErr
    ELSE IF ConnReportRegexMatches(value)
    THEN Msg("Push", "Report", 0, value,
             <<Split(Slice(value, 2, Len(value) - 1), "|")[1]>>)
    ELSE IF FeedbackRegexMatches(value)
    THEN LET parts == Split(Slice(value, 2, Len(value) - 1), ":")
         IN  Msg("Push", "Feedback", 0, value, <<parts[1], parts[2]>>)
    ELSE ParseErr

\* impl From<&str> for Message of connection/message.rs
ConnMessageFrom(value) ==
    IF ConnResponseTryFrom(value).kind # "Err" THEN ConnResponseTryFrom(value)
    ELSE IF ConnPushTryFrom(value).kind # "Err" THEN ConnPushTryFrom(value)
    ELSE Msg("Unknown", "", 0, value, <<>>)

\* a variant of ConnDisplay that writes a Response as the log line `RES '..'`
ConnDisplayTagged(m) ==
    CASE m.kind = "Response" /\ m.tag = "Ok" -> <<"R","E","S"," ","'","o","k","'">>
      [] m.kind = "Response" /\ m.tag = "Error" ->
             <<"R","E","S"," ","'">> \o ErrorPrefix \o U8Text(m.code) \o <<"'">>
      [] m.kind = "Push" /\ m.tag = "Alarm" -> AlarmPrefix \o U8Text(m.code)
      [] OTHER -> m.raw

\* impl fmt::Display for Message of connection/message.rs
ConnDisplay(m) ==
    CASE m.kind = "Response" /\ m.tag = "Ok" -> <<"o","k">>
      [] m.kind = "Response" /\ m.tag = "Error" -> ErrorPrefix \o U8Text(m.code)
      [] m.kind = "Push" /\ m.tag = "Alarm" -> AlarmPrefix \o U8Text(m.code)
      [] OTHER -> m.raw

(***************************************************************************)
(* Bytes on the transport                                                  *)
(***************************************************************************)
\* the printable ASCII characters in code order, from 32 (space) to 126; the two
\* characters that cannot be written in a string here are named
AsciiTable ==
    <<" ", "!", "dquote", "#", "$", "%", "&", "'", "(", ")", "*", "+", ",", "-", ".", "/",
      "0", "1", "2", "3", "4", "5", "6", "7", "8", "9", ":", ";", "<", "=", ">", "?",
      "@", "A", "B", "C", "D", "E", "F", "G", "H", "I", "J", "K", "L", "M", "N", "O",
      "P", "Q", "R", "S", "T", "U", "V", "W", "X", "Y", "Z", "[", "\\", "]", "^", "_",
      "backtick", "a", "b", "c", "d", "e", "f", "g", "h", "i", "j", "k", "l", "m", "n", "o",
      "p", "q", "r", "s", "t", "u", "v", "w", "x", "y", "z", "{", "|", "}", "~">>

\* the byte each character is written as
Code ==
    [c \in {AsciiTable[i] : i \in 1..Len(AsciiTable)} \cup {"\n", "\r", "\t"} |->
       CASE c = "\n" -> 10
         [] c = "\r" -> 13
         [] c = "\t" -> 9
         [] OTHER -> 31 + (CHOOSE i \in 1..Len(AsciiTable) : AsciiTable[i] = c)]

Ord(c) == Code[c]

\* str::as_bytes
AsBytes(s) == [i \in 1..Len(s) |-> Ord(s[i])]

LF == 10

HexDigit(n) == <<"0","1","2","3","4","5","6","7","8","9","a","b","c","d","e","f">>[n + 1]

\* format!("{:#x}", byte) for a u8
HexU8(b) ==
    <<"0", "x">> \o (IF b >= 16 THEN <<HexDigit(b \div 16)>> ELSE <<>>) \o <<HexDigit(b % 16)>>

(***************************************************************************)
(* Commands                                                                *)
(***************************************************************************)
\* Command::Gcode(String) / Command::Block(String); id is the order of submission
Gcode(text, id) == [kind |-> "Gcode", text |-> text, byte |-> 0, id |-> id]

\* Command::Realtime(u8)
Realtime(byte, id) == [kind |-> "Realtime", text |-> NoText, byte |-> byte, id |-> id]

StatusQuery == 63

JogCancel == 133

FeedHold == 130

CheckToggle == <<"$", "C">>

(***************************************************************************)
(* Inputs: job files, configured buffer sizes, controller lines            *)
(***************************************************************************)
G0X1 == <<"G","0","X","1">>

G1Y2 == <<" ","G","1","Y","2">>

BAD1 == <<"B","A","D","1">>

JOGX == <<"$","J","=","X"," ","I","N">>

LONG == <<"G","0"," ","X","1","0">>

Jobs == { <<G0X1, BAD1, G1Y2>>, <<JOGX, G0X1>>, <<G0X1, LONG>> }

RxSizes == {5, 10}

Engines == {"controller", "connection", "task"}

OkLine == <<"o","k","\r","\n">>

ErrLine == <<"e","r","r","o","r",":","2","\r","\n">>

IdleLine ==
    <<"<","I","d","l","e","|","M","P","o","s",":","1",".","0",",","2",".","0",",","3",".","0",">","\r","\n">>

RunLine == <<"<","R","u","n",">","\r","\n">>

Prb5Line ==
    <<"[","P","R","B",":","1",".","0",",","2",".","0",",","3",".","0",",",
      "0",".","0",",","0",".","0",":","1","]","\r","\n">>

Prb3Line ==
    <<"[","P","R","B",":","1",".","0",",","2",".","0",",","3",".","0",":","1","]","\r","\n">>

ReportLines == {IdleLine, RunLine}

ProbeLines == {Prb5Line}

ControllerLines == {OkLine, ErrLine} \cup ReportLines \cup ProbeLines

\* bounds of the model
\* asynchronous probe events in a run: rising edges seen plus probe results pushed
MaxAsync == 1

\* status queries the polling threads submit in a run
MaxPolls == 1

(***************************************************************************)
(* State                                                                   *)
(***************************************************************************)
VARIABLES
    engine,          \* which generation of the engine runs
    gcode,           \* the lines of the job file
    rx_buffer_size,  \* config.grbl.rx_buffer_size_bytes
    check,           \* step.check
    pc,              \* the caller: execute_gcode_step / buffered_stream / wait_for_report
    phase,           \* "check" or "stream": which buffered_stream call runs
    lineIdx,         \* position of buffered_stream's for loop in gcode
    bytes_queued,    \* buffered_stream: VecDeque<usize>
    received_count,  \* buffered_stream
    sent_count,      \* buffered_stream
    responses,       \* buffered_stream: Vec<(i32, Response)>
    errors,          \* execute_gcode_step: the check phase's error list
    wfrFrom,         \* which call of wait_for_report runs: "jog" or "final"
    got,             \* wait_for_report: the Push just received
    polling,         \* wait_for_report: Arc<AtomicBool>
    ppc,             \* the polling thread of wait_for_report
    polls,           \* number of StatusQuery bytes the pollers have submitted
    send_ch,         \* serial channel, host to worker (rendezvous): the offered command
    prio_ch,         \* priority channel, host to worker (rendezvous): the offered commands
    recv_ch,         \* response channel, receive worker to caller (unbounded)
    spc,             \* the send worker's position in its loop
    edges,           \* number of probe edges seen
    wire,            \* every byte written to the transport, in order
    devAcked,        \* number of blocks the controller has answered
    devReported,     \* number of status queries the controller has answered
    devProbes,       \* number of probe results the controller has pushed
    nsub,            \* number of commands submitted so far (history)
    taken,           \* commands in the order the send worker accepted them (history)
    written,         \* commands in the order they were written (history)
    submitted,       \* ids of the blocks the running buffered_stream call submitted (history)
    cmd_ch,          \* Connection engine: command channel (rendezvous): offered commands
    queued,          \* Connection engine, send worker: VecDeque<Command>
    sent,            \* Connection engine, send worker: VecDeque<Command>
    wpc,             \* Connection engine: the send worker's position
    senders,         \* Connection engine: whether a Sender of the command channel lives
    cpc,             \* Connection engine: the caller of ActiveConnection::stream
    cIdx,            \* Connection engine: position of stream's for loop in cmds
    running,         \* Controller.running, the shutdown flag
    rpc,             \* the receive worker: "on" in its loop, "eof" in its loop on a
                     \* transport the peer has closed, "off" once it has ended
    hpc,             \* the ctrlc handler: "idle", "sleep" or "done"
    codec,           \* which of the repository's message codecs a reader runs
    received,        \* the trimmed line the reader holds
    classified,      \* Message::from(received)
    shown,           \* format!("{}", classified)
    kpc,             \* the reader: "idle", "read", "parsed", "shown" or "panicked"
    steps,           \* config.steps: the steps of the job
    step_i,          \* main: position of the job loop in config.steps
    jpc,             \* main: the job loop's position
    cached,          \* gpio_inputs.signal: an interrupt trigger event is cached
    edgeSince,       \* a rising edge was seen since the loop reached the step (history)
    passes,          \* sequences of the job loop that ran to their end (history)
    dropped,         \* number of pushes the receive worker dropped (history)
    stop_pc,         \* Controller::stop: "idle", "join_send", "join_recv" or "returned"
    serial_handles,  \* Controller.serial_handles is Some
    channels,        \* Controller.serial_channel and prio_serial_channel are Some
    stops            \* number of calls of Controller::stop

ctlVars ==
    <<pc, phase, lineIdx, bytes_queued, received_count, sent_count, responses, errors,
      wfrFrom, got, polling, ppc, polls, send_ch, prio_ch, recv_ch, spc, edges>>

devVars == <<devAcked, devReported, devProbes>>

cfgVars == <<engine, gcode, rx_buffer_size, check>>

histVars == <<nsub, taken, written>>

connVars == <<cmd_ch, queued, sent, wpc, senders, cpc, cIdx>>

\* the running flag, the receive worker and the ctrlc handler
stopVars == <<running, rpc, hpc>>

codecVars == <<codec, received, classified, shown, kpc>>

jobVars == <<steps, step_i, jpc, cached, edgeSince, passes>>

stopCallVars == <<stop_pc, serial_handles, channels, stops>>

auxVars == <<dropped, stopCallVars>>

vars ==
    <<ctlVars, devVars, cfgVars, histVars, connVars, wire, submitted, stopVars, codecVars,
      jobVars, auxVars>>

RECURSIVE SumSeq(_)
SumSeq(s) == IF s = <<>> THEN 0 ELSE Head(s) + SumSeq(Tail(s))

NoMsg == Msg("None", "", 0, NoText, <<>>)

(***************************************************************************)
(* Controller engine: buffered_stream (controller/serial.rs)               *)
(***************************************************************************)
\* the regex ^\$J=.* IN$
JogRegexMatches(t) ==
    Len(t) >= 6 /\ StartsWith(t, <<"$","J","=">>) /\ EndsWith(t, <<" ","I","N">>)

\* `re.is_match(raw_line.trim())`
IsInterruptible(raw_line) == JogRegexMatches(Trim(raw_line))

\* a buffered_stream that sends the line of the file as it is, trimmed
UnstrippedLine(raw_line) == Trim(raw_line)

\* the line buffered_stream sends for a line of the file
StrippedLine(raw_line) ==
    IF IsInterruptible(raw_line) THEN StripSuffix(Trim(raw_line), <<" ","I","N">>)
    ELSE Trim(raw_line)

\* both, for every line of the job files
Prepared ==
    [raw \in UNION {{job[i] : i \in 1..Len(job)} : job \in Jobs} |->
       [line |-> StrippedLine(raw), interruptible |-> IsInterruptible(raw)]]

Interruptible(raw_line) == Prepared[raw_line].interruptible

LineOf(raw_line) == Prepared[raw_line].line

\* the loop condition `bytes_queued.iter().sum() >= rx_buffer_size`
MustWait(queue, size) == SumSeq(queue) >= size

\* the top of the for loop: the next line's length is queued, or the loop ends
EnterLine(k, queue) ==
    IF k > Len(gcode)
    THEN /\ pc' = "bs_drain"
         /\ bytes_queued' = queue
    ELSE /\ pc' = "bs_room"
         /\ bytes_queued' = Append(queue, Len(LineOf(gcode[k])))

\* the start of a buffered_stream call
EnterStream(which) ==
    /\ phase' = which
    /\ lineIdx' = 1
    /\ received_count' = 0
    /\ sent_count' = 0
    /\ responses' = <<>>
    /\ submitted' = <<>>
    /\ EnterLine(1, <<>>)

\* the start of a wait_for_report call: the polling thread is spawned
\* a wait_for_report on a buffered push channel: a Report kept from before the
\* call is the first one it evaluates
EnterWaitBuffered(from) ==
    /\ wfrFrom' = from
    /\ polling' = TRUE
    /\ ppc' = "loop"
    /\ pc' = IF ~running THEN "wfr_none" ELSE IF dropped > 0 THEN "wfr_eval" ELSE "wfr_recv"

EnterWait(from) ==
    /\ wfrFrom' = from
    /\ polling' = TRUE
    /\ ppc' = "loop"
    /\ pc' = IF running THEN "wfr_recv" ELSE "wfr_none"

\* the closure `receive`: one Response is taken from the response channel
Receive ==
    /\ recv_ch # <<>>
    /\ received_count' = received_count + 1
    /\ bytes_queued' = IF bytes_queued = <<>> THEN <<>> ELSE Tail(bytes_queued)
    /\ responses' = Append(responses, [index |-> received_count + 1,
                                       resp |-> Head(recv_ch).msg,
                                       for |-> Head(recv_ch).for])
    /\ recv_ch' = Tail(recv_ch)

\* `while bytes_queued.iter().sum() >= rx_buffer_size { receive()? }`
BsWaitRoom ==
    /\ engine = "controller"
    /\ pc = "bs_room"
    /\ MustWait(bytes_queued, rx_buffer_size)
    /\ Receive
    /\ UNCHANGED <<pc, phase, lineIdx, sent_count, errors, wfrFrom, got, polling, ppc,
                   polls, send_ch, prio_ch, spc, edges>>
    /\ UNCHANGED <<wire, devVars, cfgVars, codecVars, jobVars, auxVars, connVars, histVars>>
    /\ UNCHANGED submitted
    /\ UNCHANGED stopVars

\* `serial_tx.send(Command::Gcode(line))`: the line is offered to the send worker
BsSend ==
    /\ engine = "controller"
    /\ pc = "bs_room"
    /\ ~MustWait(bytes_queued, rx_buffer_size)
    /\ send_ch' = <<Gcode(LineOf(gcode[lineIdx]), nsub + 1)>>
    /\ nsub' = nsub + 1
    /\ submitted' = Append(submitted, nsub + 1)
    /\ pc' = "bs_send"
    /\ UNCHANGED <<phase, lineIdx, bytes_queued, received_count, sent_count, responses,
                   errors, wfrFrom, got, polling, ppc, polls, prio_ch, recv_ch, spc, edges>>
    /\ UNCHANGED <<wire, devVars, cfgVars, codecVars, jobVars, auxVars, connVars, taken, written>>
    /\ UNCHANGED stopVars

\* the send has returned: `sent_count += 1`, then the jog wait or the next line
BsSent ==
    /\ engine = "controller"
    /\ pc = "bs_send"
    /\ send_ch = <<>>
    /\ sent_count' = sent_count + 1
    /\ IF Interruptible(gcode[lineIdx])
       THEN /\ EnterWait("jog")
            /\ UNCHANGED <<lineIdx, bytes_queued>>
       ELSE /\ lineIdx' = lineIdx + 1
            /\ EnterLine(lineIdx + 1, bytes_queued)
            /\ UNCHANGED <<wfrFrom, polling, ppc>>
    /\ UNCHANGED <<phase, received_count, responses, errors, got, polls, send_ch,
                   prio_ch, recv_ch, spc, edges>>
    /\ UNCHANGED <<wire, devVars, cfgVars, codecVars, jobVars, auxVars, connVars, histVars>>
    /\ UNCHANGED submitted
    /\ UNCHANGED stopVars

\* `while sent_count > received_count { receive()? }`
BsDrain ==
    /\ engine = "controller"
    /\ pc = "bs_drain"
    /\ sent_count > received_count
    /\ Receive
    /\ UNCHANGED <<pc, phase, lineIdx, sent_count, errors, wfrFrom, got, polling, ppc,
                   polls, send_ch, prio_ch, spc, edges>>
    /\ UNCHANGED <<wire, devVars, cfgVars, codecVars, jobVars, auxVars, connVars, histVars>>
    /\ UNCHANGED submitted
    /\ UNCHANGED stopVars

(***************************************************************************)
(* Controller engine: execute_gcode_step (main.rs)                         *)
(***************************************************************************)
\* the responses of the check phase that are Response::Error, with their indices
ErrorsOf(list) == SelectSeq(list, LAMBDA r : r.resp.tag = "Error")

\* the step starts: `$C` is sent when step.check, else the stream begins
StepStart ==
    /\ engine = "controller"
    /\ pc = "step"
    /\ IF check
       THEN /\ send_ch' = <<Gcode(CheckToggle, nsub + 1)>>
            /\ nsub' = nsub + 1
            /\ pc' = "c1_send"
            /\ UNCHANGED <<phase, lineIdx, bytes_queued, received_count, sent_count,
                           responses, submitted>>
       ELSE /\ EnterStream("stream")
            /\ UNCHANGED <<send_ch, nsub>>
    /\ UNCHANGED <<errors, wfrFrom, got, polling, ppc, polls, prio_ch, recv_ch, spc, edges>>
    /\ UNCHANGED <<wire, devVars, cfgVars, codecVars, jobVars, auxVars, connVars, taken, written>>
    /\ UNCHANGED stopVars

\* the first `$C` has been handed over: buffered_stream runs in check mode
CheckStream ==
    /\ engine = "controller"
    /\ pc = "c1_send"
    /\ send_ch = <<>>
    /\ EnterStream("check")
    /\ UNCHANGED <<errors, wfrFrom, got, polling, ppc, polls, send_ch, prio_ch, recv_ch,
                   spc, edges>>
    /\ UNCHANGED <<wire, devVars, cfgVars, codecVars, jobVars, auxVars, connVars, histVars>>
    /\ UNCHANGED stopVars

\* buffered_stream returns Ok(responses) to execute_gcode_step
BsReturn ==
    /\ engine = "controller"
    /\ pc = "bs_drain"
    /\ sent_count <= received_count
    /\ IF phase = "check"
       THEN /\ errors' = ErrorsOf(responses)
            /\ send_ch' = <<Gcode(CheckToggle, nsub + 1)>>
            /\ nsub' = nsub + 1
            /\ pc' = "c2_send"
            /\ UNCHANGED <<wfrFrom, polling, ppc>>
       ELSE /\ EnterWait("final")
            /\ UNCHANGED <<errors, send_ch, nsub>>
    /\ UNCHANGED <<phase, lineIdx, bytes_queued, received_count, sent_count, responses,
                   got, polls, prio_ch, recv_ch, spc, edges>>
    /\ UNCHANGED <<wire, devVars, cfgVars, codecVars, jobVars, auxVars, connVars, taken, written>>
    /\ UNCHANGED submitted
    /\ UNCHANGED stopVars

\* a variant of HasErrors that finds no list to hold errors
HasErrorsNever(list) == FALSE

\* `errors.len() > 0`
HasErrors(list) == Len(list) > 0

\* the second `$C` has been handed over: the step fails on errors, else it streams
CheckDone ==
    /\ engine = "controller"
    /\ pc = "c2_send"
    /\ send_ch = <<>>
    /\ IF HasErrors(errors)
       THEN /\ pc' = "failed"
            /\ UNCHANGED <<phase, lineIdx, bytes_queued, received_count, sent_count,
                           responses, submitted>>
       ELSE EnterStream("stream")
    /\ UNCHANGED <<errors, wfrFrom, got, polling, ppc, polls, send_ch, prio_ch, recv_ch,
                   spc, edges>>
    /\ UNCHANGED <<wire, devVars, cfgVars, codecVars, jobVars, auxVars, connVars, histVars>>
    /\ UNCHANGED stopVars

\* execute_gcode_step of steps/gcode.rs, which differs on errors: it logs them,
\* skips the streaming and returns Ok(())
CheckDoneSkip ==
    /\ engine = "controller"
    /\ pc = "c2_send"
    /\ send_ch = <<>>
    /\ HasErrors(errors)
    /\ pc' = "skipped"
    /\ UNCHANGED <<phase, lineIdx, bytes_queued, received_count, sent_count, responses,
                   submitted>>
    /\ UNCHANGED <<errors, wfrFrom, got, polling, ppc, polls, send_ch, prio_ch, recv_ch,
                   spc, edges>>
    /\ UNCHANGED <<wire, devVars, cfgVars, codecVars, jobVars, auxVars, connVars, histVars>>
    /\ UNCHANGED stopVars

(***************************************************************************)
(* Controller engine: wait_for_report (controller/serial.rs)               *)
(***************************************************************************)
\* the predicate of the jog wait: status Idle and a machine position
JogPredicate(report) == report.tag = "Idle" /\ report.mpos # <<>>

\* the predicate of the wait that ends a step: status Idle
IdlePredicate(report) == report.tag = "Idle"

\* a variant of WaitEval that ends the wait with whatever Report was received
WaitEvalAny ==
    /\ engine = "controller"
    /\ pc = "wfr_eval"
    /\ polling' = FALSE
    /\ pc' = "wfr_join"
    /\ UNCHANGED <<phase, lineIdx, bytes_queued, received_count, sent_count, responses,
                   errors, wfrFrom, got, ppc, polls, send_ch, prio_ch, recv_ch, spc, edges>>
    /\ UNCHANGED <<wire, devVars, cfgVars, codecVars, jobVars, auxVars, connVars, histVars>>
    /\ UNCHANGED submitted
    /\ UNCHANGED stopVars

\* a Report was received: it ends the wait when it matches
WaitEval ==
    /\ engine = "controller"
    /\ pc = "wfr_eval"
    /\ IF (IF wfrFrom = "jog" THEN JogPredicate(got) ELSE IdlePredicate(got))
       THEN /\ polling' = FALSE
            /\ pc' = "wfr_join"
       ELSE /\ running
            /\ pc' = "wfr_recv"
            /\ UNCHANGED polling
    /\ UNCHANGED <<phase, lineIdx, bytes_queued, received_count, sent_count, responses,
                   errors, wfrFrom, got, ppc, polls, send_ch, prio_ch, recv_ch, spc, edges>>
    /\ UNCHANGED <<wire, devVars, cfgVars, codecVars, jobVars, auxVars, connVars, histVars>>
    /\ UNCHANGED submitted
    /\ UNCHANGED stopVars

\* thread::scope has joined the polling thread: wait_for_report returns the Report
WaitReturn ==
    /\ engine = "controller"
    /\ pc \in {"wfr_join", "wfr_none"}
    /\ ppc = "off"
    /\ IF wfrFrom = "jog"
       THEN /\ lineIdx' = lineIdx + 1
            /\ EnterLine(lineIdx + 1, bytes_queued)
       ELSE /\ pc' = "done"
            /\ UNCHANGED <<lineIdx, bytes_queued>>
    /\ UNCHANGED <<phase, received_count, sent_count, responses, errors, wfrFrom, got,
                   polling, ppc, polls, send_ch, prio_ch, recv_ch, spc, edges>>
    /\ UNCHANGED <<wire, devVars, cfgVars, codecVars, jobVars, auxVars, connVars, histVars>>
    /\ UNCHANGED submitted
    /\ UNCHANGED stopVars

\* the polling thread submits `?` on the priority channel (at most n in a run)
PollSendUpTo(n) ==
    /\ engine = "controller"
    /\ ppc = "loop"
    /\ polling
    /\ running
    /\ polls < n
    /\ prio_ch' = Append(prio_ch, [cmd |-> Realtime(StatusQuery, nsub + 1), from |-> "poller"])
    /\ nsub' = nsub + 1
    /\ polls' = polls + 1
    /\ ppc' = "send"
    /\ UNCHANGED <<pc, phase, lineIdx, bytes_queued, received_count, sent_count, responses,
                   errors, wfrFrom, got, polling, send_ch, recv_ch, spc, edges>>
    /\ UNCHANGED <<wire, devVars, cfgVars, codecVars, jobVars, auxVars, connVars, taken, written>>
    /\ UNCHANGED submitted
    /\ UNCHANGED stopVars

PollSend == PollSendUpTo(MaxPolls)

\* the `?` was handed over and the 200 ms sleep is over
PollSlept ==
    /\ engine = "controller"
    /\ ppc = "send"
    /\ \A i \in 1..Len(prio_ch) : prio_ch[i].from # "poller"
    /\ ppc' = "loop"
    /\ UNCHANGED <<pc, phase, lineIdx, bytes_queued, received_count, sent_count, responses,
                   errors, wfrFrom, got, polling, polls, send_ch, prio_ch, recv_ch, spc,
                   edges>>
    /\ UNCHANGED <<wire, devVars, cfgVars, codecVars, jobVars, auxVars, connVars, histVars>>
    /\ UNCHANGED submitted
    /\ UNCHANGED stopVars

\* the polling thread sees `polling` or `running` cleared and ends
PollExit ==
    /\ engine = "controller"
    /\ ppc = "loop"
    /\ ~polling \/ ~running
    /\ ppc' = "off"
    /\ UNCHANGED <<pc, phase, lineIdx, bytes_queued, received_count, sent_count, responses,
                   errors, wfrFrom, got, polling, polls, send_ch, prio_ch, recv_ch, spc,
                   edges>>
    /\ UNCHANGED <<wire, devVars, cfgVars, codecVars, jobVars, auxVars, connVars, histVars>>
    /\ UNCHANGED submitted
    /\ UNCHANGED stopVars

(***************************************************************************)
(* Controller engine: the workers of Controller::start (controller.rs)     *)
(***************************************************************************)
\* fn send: what the send worker writes for a command
SendBytes(command) ==
    IF command.kind = "Gcode" THEN AsBytes(command.text) \o <<LF>> ELSE <<command.byte>>

\* `if let Ok(command) = prio_send_rx.try_recv() { send(&mut writer, command) }`
SendPrio ==
    /\ engine = "controller"
    /\ running
    /\ spc = "prio"
    /\ spc' = "norm"
    /\ IF prio_ch # <<>>
       THEN /\ prio_ch' = Tail(prio_ch)
            /\ wire' = wire \o SendBytes(Head(prio_ch).cmd)
            /\ taken' = Append(taken, Head(prio_ch).cmd)
            /\ written' = Append(written, Head(prio_ch).cmd)
       ELSE UNCHANGED <<prio_ch, wire, taken, written>>
    /\ UNCHANGED <<pc, phase, lineIdx, bytes_queued, received_count, sent_count, responses,
                   errors, wfrFrom, got, polling, ppc, polls, send_ch, recv_ch, edges>>
    /\ UNCHANGED <<devVars, cfgVars, codecVars, jobVars, auxVars, connVars, nsub>>
    /\ UNCHANGED submitted
    /\ UNCHANGED stopVars

\* `if let Ok(command) = send_rx.try_recv() { send(&mut writer, command) }`
SendNorm ==
    /\ engine = "controller"
    /\ spc = "norm"
    /\ spc' = "prio"
    /\ IF send_ch # <<>>
       THEN /\ send_ch' = <<>>
            /\ wire' = wire \o SendBytes(Head(send_ch))
            /\ taken' = Append(taken, Head(send_ch))
            /\ written' = Append(written, Head(send_ch))
       ELSE UNCHANGED <<send_ch, wire, taken, written>>
    /\ UNCHANGED <<pc, phase, lineIdx, bytes_queued, received_count, sent_count, responses,
                   errors, wfrFrom, got, polling, ppc, polls, prio_ch, recv_ch, edges>>
    /\ UNCHANGED <<devVars, cfgVars, codecVars, jobVars, auxVars, connVars, nsub>>
    /\ UNCHANGED submitted
    /\ UNCHANGED stopVars

\* `Message::from(response.trim())` for the lines the controller sends
Parsed == [line \in ControllerLines |-> MessageFrom(Trim(line))]

\* a receive worker that keeps an unawaited Push: it goes to the response channel
RouteQueued(line, for) ==
    LET message == Parsed[line]
    IN  CASE message.kind = "Push" ->
               IF pc = "wfr_recv"
               THEN /\ got' = message /\ pc' = "wfr_eval" /\ UNCHANGED <<recv_ch, dropped>>
               ELSE /\ recv_ch' = Append(recv_ch, [msg |-> message, for |-> for])
                    /\ UNCHANGED <<got, pc, dropped>>
          [] message.kind = "Response" ->
               /\ recv_ch' = Append(recv_ch, [msg |-> message, for |-> for])
               /\ UNCHANGED <<got, pc, dropped>>
          [] OTHER -> UNCHANGED <<got, pc, recv_ch, dropped>>

\* the routing of the receive worker for the line it has read; `for` is the block
\* the controller answered with the line (history, 0 for a push)
Route(line, for) ==
    LET message == Parsed[line]
    IN  CASE message.kind = "Push" ->
               \* prio_recv_tx.try_send(push): taken only by a waiting receiver
               IF pc = "wfr_recv"
               THEN /\ got' = message
                    /\ pc' = "wfr_eval"
                    /\ UNCHANGED <<recv_ch, dropped>>
               ELSE /\ dropped' = dropped + 1
                    /\ UNCHANGED <<got, pc, recv_ch>>
          [] message.kind = "Response" ->
               /\ recv_ch' = Append(recv_ch, [msg |-> message, for |-> for])
               /\ UNCHANGED <<got, pc, dropped>>
          [] OTHER -> UNCHANGED <<got, pc, recv_ch, dropped>>

(***************************************************************************)
(* Controller engine: the probe interrupts of main (main.rs)               *)
(***************************************************************************)
ProbePins == {"probe_xy", "probe_z"}

\* a rising edge on a probe pin: the callback submits Realtime(0x85)
ProbeEdge(pin) ==
    /\ engine = "controller"
    /\ edges + devProbes < MaxAsync
    /\ \A i \in 1..Len(prio_ch) : prio_ch[i].from # pin
    /\ prio_ch' = Append(prio_ch, [cmd |-> Realtime(JogCancel, nsub + 1), from |-> pin])
    /\ nsub' = nsub + 1
    /\ edges' = edges + 1
    /\ UNCHANGED <<pc, phase, lineIdx, bytes_queued, received_count, sent_count, responses,
                   errors, wfrFrom, got, polling, ppc, polls, send_ch, recv_ch, spc>>
    /\ UNCHANGED <<wire, devVars, cfgVars, codecVars, jobVars, auxVars, connVars, taken, written>>
    /\ UNCHANGED submitted
    /\ UNCHANGED stopVars

(***************************************************************************)
(* The controller at the other end of the transport (environment)          *)
(***************************************************************************)
\* the realtime bytes the controller picks out of the stream
IsRealtimeByte(b) == b >= 128 \/ b \in {24, 25, StatusQuery}

\* the blocks the controller has received: the wire without realtime bytes, by line
WireBlocks(w) ==
    LET text == SelectSeq(w, LAMBDA b : ~IsRealtimeByte(b))
        parts == Split(text, LF)
    IN  SubSeq(parts, 1, Len(parts) - 1)

WireQueries(w) == Len(SelectSeq(w, LAMBDA b : b = StatusQuery))

\* the line the controller answers a block with: error:2 for a block it rejects
AnswerTo(block) == IF block = AsBytes(BAD1) THEN ErrLine ELSE OkLine

\* the controller answers its next block, and the receive worker reads the line
RecvResponse ==
    /\ engine = "controller"
    /\ rpc = "on"
    /\ devAcked < Len(SelectSeq(wire, LAMBDA b : b = LF))
    /\ devAcked' = devAcked + 1
    /\ Route(AnswerTo(WireBlocks(wire)[devAcked + 1]), devAcked + 1)
    /\ UNCHANGED <<phase, lineIdx, bytes_queued, received_count, sent_count, responses,
                   errors, wfrFrom, polling, ppc, polls, send_ch, prio_ch, spc, edges>>
    /\ UNCHANGED <<wire, devReported, devProbes, cfgVars, codecVars, jobVars, stopCallVars, connVars, histVars>>
    /\ UNCHANGED submitted
    /\ rpc' = IF running THEN "on" ELSE "off"
    /\ UNCHANGED <<running, hpc>>

\* the controller answers a status query with a report, and the receive worker
\* reads the line
RecvReport(line) ==
    /\ engine = "controller"
    /\ rpc = "on"
    /\ devReported < WireQueries(wire)
    /\ devReported' = devReported + 1
    /\ Route(line, 0)
    /\ UNCHANGED <<phase, lineIdx, bytes_queued, received_count, sent_count, responses,
                   errors, wfrFrom, polling, ppc, polls, send_ch, prio_ch, spc, edges>>
    /\ UNCHANGED <<wire, devAcked, devProbes, cfgVars, codecVars, jobVars, stopCallVars, connVars, histVars>>
    /\ UNCHANGED submitted
    /\ rpc' = IF running THEN "on" ELSE "off"
    /\ UNCHANGED <<running, hpc>>

\* the controller pushes a probe result, and the receive worker reads the line
RecvProbe(line) ==
    /\ engine = "controller"
    /\ rpc = "on"
    /\ edges + devProbes < MaxAsync
    /\ devProbes' = devProbes + 1
    /\ Route(line, 0)
    /\ UNCHANGED <<phase, lineIdx, bytes_queued, received_count, sent_count, responses,
                   errors, wfrFrom, polling, ppc, polls, send_ch, prio_ch, spc, edges>>
    /\ UNCHANGED <<wire, devAcked, devReported, cfgVars, codecVars, jobVars, stopCallVars, connVars, histVars>>
    /\ UNCHANGED submitted
    /\ rpc' = IF running THEN "on" ELSE "off"
    /\ UNCHANGED <<running, hpc>>

(***************************************************************************)
(* Connection engine (connection.rs, connection/command.rs)                *)
(***************************************************************************)
\* the bound of the send worker's flow-control test
RX_LIMIT == 1023

\* impl fmt::Display for Command
DisplayCommand(cmd) ==
    IF cmd.kind = "Realtime" THEN <<"R", "T", " ">> \o HexU8(cmd.byte) ELSE cmd.text

\* what the send worker writes for a command: write!(writer, "{}\n", block) for a
\* Block, write!(writer, "{}", cmd) for a Realtime
ConnBytes(cmd) ==
    IF cmd.kind = "Gcode" THEN AsBytes(cmd.text) \o <<LF>> ELSE AsBytes(DisplayCommand(cmd))

\* `sent.iter().fold(0, ...)`: the bytes of the blocks in `sent`
BufferedBytes(list) ==
    SumSeq([i \in 1..Len(list) |->
              IF list[i].kind = "Gcode" THEN Len(list[i].text) + 1 ELSE 0])

\* ActiveConnection::stream: the next Block of cmds is offered with its reply channel
ConnSubmit ==
    /\ engine = "connection"
    /\ cpc = "stream"
    /\ cIdx <= Len(gcode)
    /\ cmd_ch' = Append(cmd_ch, [cmd |-> Gcode(gcode[cIdx], nsub + 1), from |-> "stream"])
    /\ nsub' = nsub + 1
    /\ cpc' = "send"
    /\ UNCHANGED <<queued, sent, wpc, senders, cIdx>>
    /\ UNCHANGED <<ctlVars, devVars, cfgVars, codecVars, jobVars, auxVars, taken, written, wire>>
    /\ UNCHANGED submitted
    /\ UNCHANGED stopVars

\* the send has returned: the loop goes on, or stream turns to the reply channels
ConnSubmitted ==
    /\ engine = "connection"
    /\ cpc = "send"
    /\ \A i \in 1..Len(cmd_ch) : cmd_ch[i].from # "stream"
    /\ cIdx' = cIdx + 1
    /\ cpc' = IF cIdx + 1 > Len(gcode) THEN "await" ELSE "stream"
    /\ UNCHANGED <<cmd_ch, queued, sent, wpc, senders>>
    /\ UNCHANGED <<ctlVars, devVars, cfgVars, codecVars, jobVars, auxVars, histVars, wire>>
    /\ UNCHANGED submitted
    /\ UNCHANGED stopVars

\* `rx.recv()?`: no one holds the Sender of a reply channel, so recv fails and
\* stream returns the error
ConnAwaitFails ==
    /\ engine = "connection"
    /\ cpc = "await"
    /\ cpc' = "failed"
    /\ UNCHANGED <<cmd_ch, queued, sent, wpc, senders, cIdx>>
    /\ UNCHANGED <<ctlVars, devVars, cfgVars, codecVars, jobVars, auxVars, histVars, wire>>
    /\ UNCHANGED submitted
    /\ UNCHANGED stopVars

\* ActiveConnection::close: the connection, and with it the Sender, is dropped
ConnClose ==
    /\ engine = "connection"
    /\ cpc = "failed"
    /\ cmd_ch = <<>>
    /\ senders
    /\ senders' = FALSE
    /\ cpc' = "closed"
    /\ UNCHANGED <<cmd_ch, queued, sent, wpc, cIdx>>
    /\ UNCHANGED <<ctlVars, devVars, cfgVars, codecVars, jobVars, auxVars, histVars, wire>>
    /\ UNCHANGED submitted
    /\ UNCHANGED stopVars

\* another holder of `sender` submits a Realtime command
ConnInject(byte) ==
    /\ engine = "connection"
    /\ senders
    /\ edges + devProbes < MaxAsync
    /\ \A i \in 1..Len(cmd_ch) : cmd_ch[i].from # "inject"
    /\ cmd_ch' = Append(cmd_ch, [cmd |-> Realtime(byte, nsub + 1), from |-> "inject"])
    /\ nsub' = nsub + 1
    /\ edges' = edges + 1
    /\ UNCHANGED <<queued, sent, wpc, senders, cpc, cIdx>>
    /\ UNCHANGED <<pc, phase, lineIdx, bytes_queued, received_count, sent_count, responses,
                   errors, wfrFrom, got, polling, ppc, polls, send_ch, prio_ch, recv_ch, spc>>
    /\ UNCHANGED <<devVars, cfgVars, codecVars, jobVars, auxVars, taken, written, wire>>
    /\ UNCHANGED submitted
    /\ UNCHANGED stopVars

\* the loop of the send worker: `cmd_rx.recv()` yields a command, which is queued
ConnAccept(i) ==
    /\ engine = "connection"
    /\ wpc = "recv"
    /\ i \in 1..Len(cmd_ch)
    /\ cmd_ch' = SubSeq(cmd_ch, 1, i - 1) \o SubSeq(cmd_ch, i + 1, Len(cmd_ch))
    /\ queued' = IF cmd_ch[i].cmd.kind = "Realtime"
                 THEN <<cmd_ch[i].cmd>> \o queued
                 ELSE Append(queued, cmd_ch[i].cmd)
    /\ taken' = Append(taken, cmd_ch[i].cmd)
    /\ UNCHANGED <<sent, wpc, senders, cpc, cIdx>>
    /\ UNCHANGED <<ctlVars, devVars, cfgVars, codecVars, jobVars, auxVars, nsub, written, wire>>
    /\ UNCHANGED submitted
    /\ UNCHANGED stopVars

\* `cmd_rx.recv()` yields RecvError once every Sender is gone: the loop ends
ConnDisconnected ==
    /\ engine = "connection"
    /\ wpc = "recv"
    /\ cmd_ch = <<>>
    /\ ~senders
    /\ wpc' = "dispatch"
    /\ UNCHANGED <<cmd_ch, queued, sent, senders, cpc, cIdx>>
    /\ UNCHANGED <<ctlVars, devVars, cfgVars, codecVars, jobVars, auxVars, histVars, wire>>
    /\ UNCHANGED submitted
    /\ UNCHANGED stopVars

\* the flow-control test of the send worker for a Block
Fits(buffered, block) == buffered + (Len(block) + 1) < RX_LIMIT

\* a variant of SentAfter that records every written command as in flight
SentAfterAny(list, cmd) == Append(list, cmd)

\* `sent` once cmd is written: `sent.push_back(block)` in the Block arm only
SentAfter(list, cmd) == IF cmd.kind = "Gcode" THEN Append(list, cmd) ELSE list

\* after the loop: the head of `queued` is dispatched and the worker ends
ConnDispatch ==
    /\ engine = "connection"
    /\ wpc = "dispatch"
    /\ wpc' = "closed"
    /\ IF queued = <<>>
       THEN UNCHANGED <<queued, sent, wire, written>>
       ELSE LET cmd == Head(queued)
            IN  IF cmd.kind = "Gcode" /\ ~Fits(BufferedBytes(sent), cmd.text)
                THEN UNCHANGED <<queued, sent, wire, written>>
                ELSE /\ wire' = wire \o ConnBytes(cmd)
                     /\ sent' = SentAfter(sent, cmd)
                     /\ queued' = Tail(queued)
                     /\ written' = Append(written, cmd)
    /\ UNCHANGED <<cmd_ch, senders, cpc, cIdx>>
    /\ UNCHANGED <<ctlVars, devVars, cfgVars, codecVars, jobVars, auxVars, nsub, taken>>
    /\ UNCHANGED submitted
    /\ UNCHANGED stopVars

\* a variant of PutBack that queues the command behind the pending ones
PutBackLast(list, cmd) == Append(list, cmd)

\* `queued.push_front(cmd)` after a failed write
PutBack(list, cmd) == <<cmd>> \o list

\* after the loop, with a transport that refuses the write: `write!` is Err, the
\* error is logged and the popped command is pushed back; the worker ends
ConnDispatchFails ==
    /\ engine = "connection"
    /\ wpc = "dispatch"
    /\ queued # <<>>
    /\ Head(queued).kind = "Realtime" \/ Fits(BufferedBytes(sent), Head(queued).text)
    /\ wpc' = "closed"
    /\ queued' = PutBack(Tail(queued), Head(queued))
    /\ UNCHANGED <<sent, wire, written>>
    /\ UNCHANGED <<cmd_ch, senders, cpc, cIdx>>
    /\ UNCHANGED <<ctlVars, devVars, cfgVars, codecVars, jobVars, auxVars, nsub, taken>>
    /\ UNCHANGED submitted
    /\ UNCHANGED stopVars

(***************************************************************************)
(* Task engine: Stream::execute (task.rs)                                  *)
(***************************************************************************)
\* the block that ends a streaming task
DwellBlock == <<"G", "4", " ", "P", "0", ".", "5">>

\* what a step of Stream::execute leaves alone
taskFrame ==
    <<bytes_queued, received_count, sent_count, wfrFrom, got, polling, ppc, polls,
      send_ch, prio_ch, spc, edges, devReported, devProbes, cfgVars, codecVars, jobVars, auxVars, connVars>>

\* `connection.send(cmd)?`: the block goes to the controller, and the caller holds
\* the receiver of the messages that answer it
TaskConnSend(text) ==
    /\ wire' = wire \o AsBytes(text) \o <<LF>>
    /\ nsub' = nsub + 1
    /\ taken' = Append(taken, Gcode(text, nsub + 1))
    /\ written' = Append(written, Gcode(text, nsub + 1))

\* the task starts: with `check` it sends `$C` and awaits the answer
TaskStart ==
    /\ engine = "task"
    /\ pc = "step"
    /\ IF check
       THEN /\ TaskConnSend(CheckToggle)
            /\ pc' = "t_c1"
            /\ phase' = "check"
       ELSE /\ pc' = "t_send"
            /\ UNCHANGED <<phase, wire, nsub, taken, written>>
    /\ UNCHANGED <<lineIdx, responses, errors, recv_ch, devAcked, submitted>>
    /\ UNCHANGED taskFrame
    /\ UNCHANGED stopVars

\* `.recv()?` on the receiver of the first `$C`
TaskToggled ==
    /\ engine = "task"
    /\ pc = "t_c1"
    /\ recv_ch # <<>>
    /\ recv_ch' = Tail(recv_ch)
    /\ pc' = "t_send"
    /\ UNCHANGED <<phase, lineIdx, responses, errors, wire, devAcked, nsub, taken, written,
                   submitted>>
    /\ UNCHANGED taskFrame
    /\ UNCHANGED stopVars

\* closure stream: `receivers.push(connection.send(cmd.clone())?)` for the next block
TaskSend ==
    /\ engine = "task"
    /\ pc = "t_send"
    /\ lineIdx <= Len(gcode)
    /\ running
    /\ TaskConnSend(gcode[lineIdx])
    /\ submitted' = Append(submitted, nsub + 1)
    /\ lineIdx' = lineIdx + 1
    /\ UNCHANGED <<pc, phase, responses, errors, recv_ch, devAcked>>
    /\ UNCHANGED taskFrame
    /\ UNCHANGED stopVars

\* closure stream: every receiver is read to its end; after a check the errors are
\* filtered with `index + 1` and the second `$C` is sent, else `G4 P0.5` is sent
TaskCollect ==
    /\ engine = "task"
    /\ pc = "t_send"
    /\ lineIdx > Len(gcode)
    /\ Len(recv_ch) = Len(gcode)
    /\ responses' = [k \in 1..Len(recv_ch) |->
                        [index |-> k, resp |-> recv_ch[k].msg, for |-> recv_ch[k].for]]
    /\ recv_ch' = <<>>
    /\ IF phase = "check"
       THEN /\ errors' = ErrorsOf(responses')
            /\ TaskConnSend(CheckToggle)
            /\ pc' = "t_c2"
       ELSE /\ TaskConnSend(DwellBlock)
            /\ pc' = "t_dwell"
            /\ UNCHANGED errors
    /\ UNCHANGED <<phase, lineIdx, devAcked, submitted>>
    /\ UNCHANGED taskFrame
    /\ UNCHANGED stopVars

\* `.recv()?` on the receiver of the second `$C`: bail! on errors, else stream
TaskChecked ==
    /\ engine = "task"
    /\ pc = "t_c2"
    /\ recv_ch # <<>>
    /\ recv_ch' = Tail(recv_ch)
    /\ IF HasErrors(errors)
       THEN /\ pc' = "failed"
            /\ UNCHANGED <<phase, lineIdx, responses, submitted>>
       ELSE /\ pc' = "t_send"
            /\ phase' = "stream"
            /\ lineIdx' = 1
            /\ responses' = <<>>
            /\ submitted' = <<>>
    /\ UNCHANGED <<errors, wire, devAcked, nsub, taken, written>>
    /\ UNCHANGED taskFrame
    /\ UNCHANGED stopVars

\* `.recv()?` on the receiver of `G4 P0.5`: "G-code finished executing", Ok(())
TaskFinished ==
    /\ engine = "task"
    /\ pc = "t_dwell"
    /\ recv_ch # <<>>
    /\ recv_ch' = Tail(recv_ch)
    /\ pc' = "done"
    /\ UNCHANGED <<phase, lineIdx, responses, errors, wire, devAcked, nsub, taken, written,
                   submitted>>
    /\ UNCHANGED taskFrame
    /\ UNCHANGED stopVars

\* the controller answers its next block, and the answer reaches the receiver that
\* connection.send returned for the block
TaskAnswer ==
    /\ engine = "task"
    /\ devAcked < Len(SelectSeq(wire, LAMBDA b : b = LF))
    /\ devAcked' = devAcked + 1
    /\ recv_ch' = Append(recv_ch, [msg |-> Parsed[AnswerTo(WireBlocks(wire)[devAcked + 1])],
                                   for |-> devAcked + 1])
    /\ UNCHANGED <<pc, phase, lineIdx, responses, errors, wire, nsub, taken, written,
                   submitted>>
    /\ UNCHANGED taskFrame
    /\ UNCHANGED stopVars

(***************************************************************************)
(* Controller engine: shutdown (main.rs, controller.rs, controller/serial.rs) *)
(***************************************************************************)
\* the byte the ctrlc handler writes to reset the controller
SoftReset == 24

\* what a step of the shutdown leaves alone in the step executor
stepFrame ==
    <<phase, lineIdx, bytes_queued, received_count, sent_count, responses, errors,
      wfrFrom, polling, polls, edges, devVars, cfgVars, codecVars, jobVars, auxVars, histVars, connVars, submitted>>

\* the ctrlc handler runs while the executor waits for a report: it clears `running`
CtrlC ==
    /\ engine = "controller"
    /\ running
    /\ hpc = "idle"
    /\ pc = "wfr_recv"
    /\ running' = FALSE
    /\ hpc' = "sleep"
    /\ UNCHANGED <<pc, got, ppc, send_ch, prio_ch, recv_ch, spc, wire, rpc>>
    /\ UNCHANGED stepFrame

\* the ctrlc handler, two seconds later: it writes 0x18 on its clone of the port
CtrlCReset ==
    /\ engine = "controller"
    /\ hpc = "sleep"
    /\ wire' = Append(wire, SoftReset)
    /\ hpc' = "done"
    /\ UNCHANGED <<pc, got, ppc, send_ch, prio_ch, recv_ch, spc, running, rpc>>
    /\ UNCHANGED stepFrame

\* the send worker finds `running` cleared at the top of its loop and ends
SendExit ==
    /\ engine = "controller"
    /\ ~running
    /\ spc = "prio"
    /\ spc' = "off"
    /\ UNCHANGED <<pc, got, ppc, send_ch, prio_ch, recv_ch, wire, stopVars>>
    /\ UNCHANGED stepFrame

\* a receive worker whose read_line never times out: it does not come back to the
\* test of `running`
RecvBlocked ==
    /\ engine = "controller"
    /\ ~running
    /\ rpc = "on"
    /\ UNCHANGED vars

\* the receive worker's read_line times out, and it finds `running` cleared: it
\* ends and drops its senders
RecvExit ==
    /\ engine = "controller"
    /\ ~running
    /\ rpc = "on"
    /\ rpc' = "off"
    /\ UNCHANGED <<pc, got, ppc, send_ch, prio_ch, recv_ch, spc, wire, running, hpc>>
    /\ UNCHANGED stepFrame

\* a send on the priority channel after the send worker has ended: Err, logged
PrioSendFails ==
    /\ engine = "controller"
    /\ spc = "off"
    /\ prio_ch # <<>>
    /\ prio_ch' = Tail(prio_ch)
    /\ UNCHANGED <<pc, got, ppc, send_ch, recv_ch, spc, wire, stopVars>>
    /\ UNCHANGED stepFrame

\* serial_tx.send after the send worker has ended: the executor returns the Err
SendFails ==
    /\ engine = "controller"
    /\ spc = "off"
    /\ pc \in {"bs_send", "c1_send", "c2_send"}
    /\ send_ch # <<>>
    /\ send_ch' = <<>>
    /\ pc' = "error"
    /\ UNCHANGED <<got, ppc, prio_ch, recv_ch, spc, wire, stopVars>>
    /\ UNCHANGED stepFrame

\* the closure `receive` after the receive worker has ended: serial_rx.recv() is
\* Err once the channel is empty, and buffered_stream returns the Err
ReceiveFails ==
    /\ engine = "controller"
    /\ rpc = "off"
    /\ recv_ch = <<>>
    /\ \/ pc = "bs_room" /\ MustWait(bytes_queued, rx_buffer_size)
       \/ pc = "bs_drain" /\ sent_count > received_count
    /\ pc' = "error"
    /\ UNCHANGED <<got, ppc, send_ch, prio_ch, recv_ch, spc, wire, stopVars>>
    /\ UNCHANGED stepFrame

\* wait_for_report: a Report failed the predicate and `running` is cleared: the
\* loop ends and the call returns Ok(None)
WaitCancelled ==
    /\ engine = "controller"
    /\ pc = "wfr_eval"
    /\ ~(IF wfrFrom = "jog" THEN JogPredicate(got) ELSE IdlePredicate(got))
    /\ ~running
    /\ pc' = "wfr_none"
    /\ UNCHANGED <<got, ppc, send_ch, prio_ch, recv_ch, spc, wire, stopVars>>
    /\ UNCHANGED stepFrame

\* wait_for_report: prio_serial_rx.recv() is Err once the receive worker has
\* dropped the sender: Err(SerialError("Failed to wait for status report"))
WaitDisconnected ==
    /\ engine = "controller"
    /\ pc = "wfr_recv"
    /\ rpc = "off"
    /\ pc' = "wfr_err"
    /\ UNCHANGED <<got, ppc, send_ch, prio_ch, recv_ch, spc, wire, stopVars>>
    /\ UNCHANGED stepFrame

\* thread::scope has joined the polling thread: the Err goes up to the job loop
WaitFailed ==
    /\ engine = "controller"
    /\ pc = "wfr_err"
    /\ ppc = "off"
    /\ pc' = "error"
    /\ UNCHANGED <<got, ppc, send_ch, prio_ch, recv_ch, spc, wire, stopVars>>
    /\ UNCHANGED stepFrame

\* the ctrlc handler at any moment of the step
CtrlCAnywhere ==
    /\ engine = "controller"
    /\ running
    /\ hpc = "idle"
    /\ running' = FALSE
    /\ hpc' = "sleep"
    /\ UNCHANGED <<pc, got, ppc, send_ch, prio_ch, recv_ch, spc, wire, rpc>>
    /\ UNCHANGED stepFrame

\* the shutdown flag is cleared while Stream::execute runs
TaskCtrlC ==
    /\ engine = "task"
    /\ running
    /\ pc \notin {"done", "failed"}
    /\ running' = FALSE
    /\ UNCHANGED <<pc, phase, lineIdx, responses, errors, recv_ch, wire, devAcked, nsub,
                   taken, written, submitted, rpc, hpc>>
    /\ UNCHANGED taskFrame

\* closure stream, at a Block with the flag cleared: bail!("Stopped streaming early")
TaskStopped ==
    /\ engine = "task"
    /\ pc = "t_send"
    /\ lineIdx <= Len(gcode)
    /\ ~running
    /\ pc' = "failed"
    /\ UNCHANGED <<phase, lineIdx, responses, errors, recv_ch, wire, devAcked, nsub,
                   taken, written, submitted>>
    /\ UNCHANGED taskFrame
    /\ UNCHANGED stopVars

(***************************************************************************)
(* Controller engine: transport faults (controller.rs)                     *)
(***************************************************************************)
\* fn send with a failing write: `write_all(..).or_else(log_err)` and
\* `flush().or_else(log_err)` print the error and the worker goes on; the command
\* was taken from the priority channel and nothing reached the transport
SendPrioFails ==
    /\ engine = "controller"
    /\ running
    /\ spc = "prio"
    /\ prio_ch # <<>>
    /\ spc' = "norm"
    /\ prio_ch' = Tail(prio_ch)
    /\ taken' = Append(taken, Head(prio_ch).cmd)
    /\ UNCHANGED <<pc, phase, lineIdx, bytes_queued, received_count, sent_count, responses,
                   errors, wfrFrom, got, polling, ppc, polls, send_ch, recv_ch, edges>>
    /\ UNCHANGED <<wire, written, devVars, cfgVars, codecVars, jobVars, auxVars, connVars, nsub, submitted, stopVars>>

\* the same for a command taken from the normal channel
SendNormFails ==
    /\ engine = "controller"
    /\ spc = "norm"
    /\ send_ch # <<>>
    /\ spc' = "prio"
    /\ send_ch' = <<>>
    /\ taken' = Append(taken, Head(send_ch))
    /\ UNCHANGED <<pc, phase, lineIdx, bytes_queued, received_count, sent_count, responses,
                   errors, wfrFrom, got, polling, ppc, polls, prio_ch, recv_ch, edges>>
    /\ UNCHANGED <<wire, written, devVars, cfgVars, codecVars, jobVars, auxVars, connVars, nsub, submitted, stopVars>>

\* the peer closes the transport.  From here every read_line of the receive
\* worker returns Ok(0) and leaves `response` empty; Message::from("") is Unknown,
\* which the worker prints before it reads again: its loop goes on, with no
\* further effect on the state
PeerClose ==
    /\ engine = "controller"
    /\ rpc = "on"
    /\ rpc' = "eof"
    /\ UNCHANGED <<pc, got, ppc, send_ch, prio_ch, recv_ch, spc, wire, running, hpc>>
    /\ UNCHANGED stepFrame

(***************************************************************************)
(* Specification                                                           *)
(***************************************************************************)
ProgramInit ==
    /\ engine \in Engines
    /\ gcode \in Jobs
    /\ rx_buffer_size \in (IF engine = "controller" THEN RxSizes ELSE {RX_LIMIT})
    /\ check \in (IF engine = "connection" THEN {FALSE} ELSE BOOLEAN)
    /\ pc = "step"
    /\ phase = "stream"
    /\ lineIdx = 1
    /\ bytes_queued = <<>>
    /\ received_count = 0
    /\ sent_count = 0
    /\ responses = <<>>
    /\ errors = <<>>
    /\ wfrFrom = "final"
    /\ got = NoMsg
    /\ polling = FALSE
    /\ ppc = "off"
    /\ polls = 0
    /\ send_ch = <<>>
    /\ prio_ch = <<>>
    /\ recv_ch = <<>>
    /\ spc = "prio"
    /\ edges = 0
    /\ wire = <<>>
    /\ devAcked = 0
    /\ devReported = 0
    /\ devProbes = 0
    /\ nsub = 0
    /\ taken = <<>>
    /\ written = <<>>
    /\ submitted = <<>>
    /\ cmd_ch = <<>>
    /\ queued = <<>>
    /\ sent = <<>>
    /\ wpc = "recv"
    /\ senders = TRUE
    /\ cpc = "stream"
    /\ cIdx = 1
    /\ running = TRUE
    /\ rpc = "on"
    /\ hpc = "idle"
    /\ dropped = 0
    /\ stop_pc = "idle"
    /\ serial_handles = TRUE
    /\ channels = TRUE
    /\ stops = 0

\* no reader of the codec harness runs
CodecIdle ==
    /\ codec = "none"
    /\ received = NoText
    /\ classified = NoMsg
    /\ shown = NoText
    /\ kpc = "idle"

\* the job loop of main does not run
JobIdle ==
    /\ steps = <<>>
    /\ step_i = 0
    /\ jpc = "idle"
    /\ cached = FALSE
    /\ edgeSince = FALSE
    /\ passes = 0

Init == ProgramInit /\ CodecIdle /\ JobIdle

Next ==
    \/ StepStart
    \/ CheckStream
    \/ BsWaitRoom
    \/ BsSend
    \/ BsSent
    \/ BsDrain
    \/ BsReturn
    \/ CheckDone
    \/ CheckDoneSkip
    \/ WaitEval
    \/ WaitReturn
    \/ PollSend
    \/ PollSlept
    \/ PollExit
    \/ SendPrio
    \/ SendNorm
    \/ \E pin \in ProbePins : ProbeEdge(pin)
    \/ RecvResponse
    \/ \E line \in ReportLines : RecvReport(line)
    \/ \E line \in ProbeLines : RecvProbe(line)
    \/ ConnSubmit
    \/ ConnSubmitted
    \/ ConnAwaitFails
    \/ ConnClose
    \/ ConnInject(FeedHold)
    \/ \E i \in 1..2 : ConnAccept(i)
    \/ ConnDisconnected
    \/ ConnDispatch
    \/ TaskStart
    \/ TaskToggled
    \/ TaskSend
    \/ TaskCollect
    \/ TaskChecked
    \/ TaskFinished
    \/ TaskAnswer

Spec == Init /\ [][Next]_vars

\* the program with a ctrlc during a wait for a report
NextStop ==
    \/ StepStart
    \/ CheckStream
    \/ BsWaitRoom
    \/ BsSend
    \/ BsSent
    \/ BsDrain
    \/ BsReturn
    \/ CheckDone
    \/ CheckDoneSkip
    \/ WaitEval
    \/ WaitReturn
    \/ PollSend
    \/ PollSlept
    \/ PollExit
    \/ SendPrio
    \/ SendNorm
    \/ RecvResponse
    \/ \E line \in ReportLines : RecvReport(line)
    \/ CtrlC
    \/ CtrlCReset
    \/ SendExit
    \/ RecvExit
    \/ PrioSendFails
    \/ SendFails
    \/ ReceiveFails
    \/ WaitCancelled
    \/ WaitDisconnected
    \/ WaitFailed

InitStop == Init /\ engine = "controller"

SpecStop == InitStop /\ [][NextStop]_vars

\* the program with the shutdown flag cleared at any moment
NextShutdown ==
    \/ StepStart
    \/ CheckStream
    \/ BsWaitRoom
    \/ BsSend
    \/ BsSent
    \/ BsDrain
    \/ BsReturn
    \/ CheckDone
    \/ CheckDoneSkip
    \/ WaitEval
    \/ WaitReturn
    \/ PollSend
    \/ PollSlept
    \/ PollExit
    \/ SendPrio
    \/ SendNorm
    \/ RecvResponse
    \/ \E line \in ReportLines : RecvReport(line)
    \/ CtrlCAnywhere
    \/ CtrlCReset
    \/ SendExit
    \/ RecvExit
    \/ PrioSendFails
    \/ SendFails
    \/ ReceiveFails
    \/ WaitCancelled
    \/ WaitDisconnected
    \/ WaitFailed
    \/ TaskStart
    \/ TaskToggled
    \/ TaskSend
    \/ TaskCollect
    \/ TaskChecked
    \/ TaskFinished
    \/ TaskAnswer
    \/ TaskCtrlC
    \/ TaskStopped

InitShutdown == Init /\ engine \in {"controller", "task"}

\* the steps of the program's own threads: the step executor, the polling thread,
\* the two workers and the ctrlc handler
ThreadsNext ==
    \/ StepStart
    \/ CheckStream
    \/ BsWaitRoom
    \/ BsSend
    \/ BsSent
    \/ BsDrain
    \/ BsReturn
    \/ CheckDone
    \/ CheckDoneSkip
    \/ WaitEval
    \/ WaitReturn
    \/ PollSend
    \/ PollSlept
    \/ PollExit
    \/ SendPrio
    \/ SendNorm
    \/ CtrlCReset
    \/ SendExit
    \/ RecvExit
    \/ PrioSendFails
    \/ SendFails
    \/ ReceiveFails
    \/ WaitCancelled
    \/ WaitDisconnected
    \/ WaitFailed
    \/ TaskStart
    \/ TaskToggled
    \/ TaskSend
    \/ TaskCollect
    \/ TaskChecked
    \/ TaskFinished
    \/ TaskStopped

\* every thread of the program is scheduled; nothing is assumed of the controller
SpecShutdown == InitShutdown /\ [][NextShutdown]_vars /\ WF_vars(ThreadsNext)

\* an error line whose code is text, as Grbl 0.9 writes it
TextErrLine == <<"e","r","r","o","r",":","a","b","c","\r","\n">>

\* the controller answers a block with an error line whose code is no u8: the
\* receive worker panics in `code.parse().unwrap()` and drops its senders, while
\* `running` stays set
RecvPanics ==
    /\ engine = "controller"
    /\ rpc = "on"
    /\ running
    /\ devAcked < Len(SelectSeq(wire, LAMBDA b : b = LF))
    /\ InlineMessageFrom(Trim(TextErrLine)).kind = "Panic"
    /\ devAcked' = devAcked + 1
    /\ rpc' = "off"
    /\ UNCHANGED <<ctlVars, cfgVars, histVars, connVars, wire, submitted, codecVars, jobVars,
                   auxVars, devReported, devProbes, running, hpc>>

\* the thread of the step executor, wait_for_report included
ExecutorThread ==
    \/ StepStart
    \/ CheckStream
    \/ CheckDone
    \/ CheckDoneSkip
    \/ BsWaitRoom
    \/ BsSend
    \/ BsSent
    \/ BsDrain
    \/ BsReturn
    \/ WaitEval
    \/ WaitReturn
    \/ SendFails
    \/ ReceiveFails
    \/ WaitCancelled
    \/ WaitDisconnected
    \/ WaitFailed

\* the polling thread of wait_for_report
PollingThread == PollSend \/ PollSlept \/ PollExit \/ PrioSendFails

\* the send worker
SendThread == SendPrio \/ SendNorm \/ SendExit

\* a step run with a controller that may answer with a line that crashes the
\* receive worker; the operator may press ctrl-c
NextCrash ==
    \/ ExecutorThread
    \/ PollingThread
    \/ SendThread
    \/ RecvExit
    \/ RecvResponse
    \/ (\E line \in ReportLines : RecvReport(line))
    \/ RecvPanics
    \/ CtrlCAnywhere
    \/ CtrlCReset

InitCrash == Init /\ engine = "controller"

\* every thread of the program is scheduled again and again
SpecCrash ==
    /\ InitCrash
    /\ [][NextCrash]_vars
    /\ WF_vars(ExecutorThread)
    /\ WF_vars(PollingThread)
    /\ WF_vars(SendThread)
    /\ WF_vars(RecvExit)
    /\ WF_vars(CtrlCReset)

(***************************************************************************)
(* Controller::stop and Drop (controller.rs)                               *)
(***************************************************************************)
\* calls of stop or drop that are followed after the first stop has returned
MaxStops == 2

\* what a step of stop leaves alone
stopFrame ==
    <<ctlVars, devVars, cfgVars, histVars, connVars, wire, submitted, codecVars, jobVars,
      dropped, spc, rpc, hpc>>

\* the step is over in the thread that owns the Controller
OwnerIdle == pc \in {"done", "error", "failed", "skipped"}

\* stop(): `serial_handles.take()` is Some: the flag is cleared, then the joins
StopBegin ==
    /\ engine = "controller"
    /\ OwnerIdle
    /\ stop_pc = "idle"
    /\ serial_handles
    /\ serial_handles' = FALSE
    /\ running' = FALSE
    /\ stop_pc' = "join_send"
    /\ UNCHANGED <<channels, stops>>
    /\ UNCHANGED <<ctlVars, devVars, cfgVars, histVars, connVars, wire, submitted, codecVars,
                   jobVars, dropped, rpc, hpc>>

\* `send_handle.join()` returns: the send worker has ended
StopJoinedSend ==
    /\ stop_pc = "join_send"
    /\ spc = "off"
    /\ stop_pc' = "join_recv"
    /\ UNCHANGED <<serial_handles, channels, stops, running>>
    /\ UNCHANGED <<ctlVars, devVars, cfgVars, histVars, connVars, wire, submitted, codecVars,
                   jobVars, dropped, rpc, hpc>>

\* a stop that does not wait for the receive worker before it drops the channels
StopUnjoined ==
    /\ stop_pc = "join_recv"
    /\ channels' = FALSE
    /\ stop_pc' = "returned"
    /\ UNCHANGED <<serial_handles, stops, running>>
    /\ UNCHANGED <<ctlVars, devVars, cfgVars, histVars, connVars, wire, submitted, codecVars,
                   jobVars, dropped, rpc, hpc>>

\* `recv_handle.join()` returns: the receive worker has ended; both channel pairs
\* are dropped and stop returns
StopJoinedRecv ==
    /\ stop_pc = "join_recv"
    /\ rpc = "off"
    /\ channels' = FALSE
    /\ stop_pc' = "returned"
    /\ UNCHANGED <<serial_handles, stops, running>>
    /\ UNCHANGED <<ctlVars, devVars, cfgVars, histVars, connVars, wire, submitted, codecVars,
                   jobVars, dropped, rpc, hpc>>

\* a second stop() finds `serial_handles` None, and Drop finds `running` cleared:
\* neither joins nor changes anything
StopAgain ==
    /\ stop_pc = "returned"
    /\ stops < MaxStops
    /\ \E viaDrop \in BOOLEAN :
          IF viaDrop THEN ~running ELSE ~serial_handles
    /\ stops' = stops + 1
    /\ UNCHANGED <<stop_pc, serial_handles, channels, running>>
    /\ UNCHANGED <<ctlVars, devVars, cfgVars, histVars, connVars, wire, submitted, codecVars,
                   jobVars, dropped, rpc, hpc>>

\* the thread that calls stop
StopThread == StopBegin \/ StopJoinedSend \/ StopJoinedRecv \/ StopAgain

\* a step of the controller engine, then Controller::stop
NextStopCall ==
    \/ StepStart
    \/ CheckStream
    \/ BsWaitRoom
    \/ BsSend
    \/ BsSent
    \/ BsDrain
    \/ BsReturn
    \/ CheckDone
    \/ CheckDoneSkip
    \/ WaitEval
    \/ WaitReturn
    \/ PollSend
    \/ PollSlept
    \/ PollExit
    \/ SendPrio
    \/ SendNorm
    \/ SendExit
    \/ RecvExit
    \/ RecvResponse
    \/ (\E line \in ReportLines : RecvReport(line))
    \/ StopThread

InitStopCall == Init /\ engine = "controller"

\* the workers and the caller of stop are scheduled again and again
SpecStopCall ==
    /\ InitStopCall
    /\ [][NextStopCall]_vars
    /\ WF_vars(SendThread)
    /\ WF_vars(RecvExit)
    /\ WF_vars(StopThread)

\* the polling threads may submit two `?` more than in Spec
MaxWaitPolls == MaxPolls + 2

\* a jog and a block, streamed without check: both waits for a report, with a
\* polling thread that gets ahead of the controller's reports
NextWait ==
    \/ StepStart
    \/ BsWaitRoom
    \/ BsSend
    \/ BsSent
    \/ BsDrain
    \/ BsReturn
    \/ WaitEval
    \/ WaitReturn
    \/ PollSendUpTo(MaxWaitPolls)
    \/ PollSlept
    \/ PollExit
    \/ SendPrio
    \/ SendNorm
    \/ RecvResponse
    \/ \E line \in ReportLines : RecvReport(line)

InitWait == Init /\ engine = "controller" /\ ~check /\ gcode = <<JOGX, G0X1>>

SpecWait == InitWait /\ [][NextWait]_vars

\* the Connection engine on a transport whose writes can fail
NextConnFault ==
    \/ ConnSubmit
    \/ ConnSubmitted
    \/ ConnAwaitFails
    \/ ConnClose
    \/ ConnInject(FeedHold)
    \/ \E i \in 1..2 : ConnAccept(i)
    \/ ConnDisconnected
    \/ ConnDispatch
    \/ ConnDispatchFails

InitConnFault == Init /\ engine = "connection"

SpecConnFault == InitConnFault /\ [][NextConnFault]_vars

\* the program on a transport whose writes can fail
NextFault ==
    \/ StepStart
    \/ CheckStream
    \/ BsWaitRoom
    \/ BsSend
    \/ BsSent
    \/ BsDrain
    \/ BsReturn
    \/ CheckDone
    \/ CheckDoneSkip
    \/ WaitEval
    \/ WaitReturn
    \/ PollSend
    \/ PollSlept
    \/ PollExit
    \/ SendPrio
    \/ SendNorm
    \/ SendPrioFails
    \/ SendNormFails
    \/ RecvResponse
    \/ \E line \in ReportLines : RecvReport(line)

SpecFault == InitStop /\ [][NextFault]_vars

\* the program on a transport the peer may close; every thread keeps running
NextEof ==
    \/ StepStart
    \/ CheckStream
    \/ BsWaitRoom
    \/ BsSend
    \/ BsSent
    \/ BsDrain
    \/ BsReturn
    \/ CheckDone
    \/ CheckDoneSkip
    \/ WaitEval
    \/ WaitReturn
    \/ PollSend
    \/ PollSlept
    \/ PollExit
    \/ SendPrio
    \/ SendNorm
    \/ RecvResponse
    \/ \E line \in ReportLines : RecvReport(line)
    \/ PeerClose

SpecEof == InitStop /\ [][NextEof]_vars /\ WF_vars(NextEof)

(***************************************************************************)
(* The readers and their codecs: a reader classifies each trimmed line     *)
(* with the codec of its engine, logs what it classified, and reads on     *)
(***************************************************************************)
Codecs == {"controller", "controller_message", "connection_message"}

CodeSet == 0..MaxCode

IdleReportLine ==
    <<"<","I","d","l","e","|","M","P","o","s",":","0",".","0","0","0",",","0",".","0","0","0",
      ",","0",".","0","0","0","|","B","f",":","1","5",",","1","2","8",">">>

PrbFeedbackLine == <<"[","P","R","B",":","1",".","0",",","2",".","0",",","3",".","0",":","1","]">>

\* the canonical lines of the protocol
CanonicalLines ==
    {<<"o","k">>, IdleReportLine, PrbFeedbackLine}
        \cup {ErrorPrefix \o U8Text(n) : n \in CodeSet}
        \cup {AlarmPrefix \o U8Text(n) : n \in CodeSet}

\* lines a controller does not send by the protocol
OddLines ==
    {ErrorPrefix \o <<"3","0","0">>, ErrorPrefix \o <<"a","b","c">>, ErrorPrefix,
     AlarmPrefix \o <<"3","0","0">>, NoText, <<"o","k","a","y">>,
     <<"[","M","S","G",":","P","r","o","b","e"," ","o","k","]">>,
     <<"G","r","b","l"," ","1",".","1","h">>}

CodecLines == CanonicalLines \cup OddLines

\* Message::from of the codec the reader was built with
Classify(c, line) ==
    CASE c = "controller" -> InlineMessageFrom(line)
      [] c = "controller_message" -> MessageFrom(line)
      [] c = "connection_message" -> ConnMessageFrom(line)

\* the reader classifies the line it holds
ReadLine ==
    /\ kpc = "read"
    /\ classified' = Classify(codec, received)
    /\ kpc' = IF Classify(codec, received).kind = "Panic" THEN "panicked" ELSE "parsed"
    /\ UNCHANGED <<codec, received, shown>>
    /\ UNCHANGED <<ctlVars, devVars, cfgVars, histVars, connVars, wire, submitted, stopVars,
                   jobVars, auxVars>>

\* the Connection engine's reader formats the message: `{}` of Message
ShowMessage ==
    /\ kpc = "parsed"
    /\ codec = "connection_message"
    /\ shown' = ConnDisplay(classified)
    /\ kpc' = "shown"
    /\ UNCHANGED <<codec, received, classified>>
    /\ UNCHANGED <<ctlVars, devVars, cfgVars, histVars, connVars, wire, submitted, stopVars,
                   jobVars, auxVars>>

\* the reader's loop comes round: it holds the next line of the transport
NextLine ==
    /\ \/ kpc = "shown"
       \/ kpc = "parsed" /\ codec # "connection_message"
    /\ received' \in CodecLines
    /\ classified' = NoMsg
    /\ shown' = NoText
    /\ kpc' = "read"
    /\ UNCHANGED codec
    /\ UNCHANGED <<ctlVars, devVars, cfgVars, histVars, connVars, wire, submitted, stopVars,
                   jobVars, auxVars>>

InitCodec ==
    /\ ProgramInit
    /\ engine = "controller"
    /\ gcode = <<JOGX, G0X1>>
    /\ rx_buffer_size = 5
    /\ ~check
    /\ codec \in Codecs
    /\ received \in CodecLines
    /\ classified = NoMsg
    /\ shown = NoText
    /\ kpc = "read"
    /\ JobIdle

NextCodec ==
    \/ ReadLine
    \/ ShowMessage
    \/ NextLine

SpecCodec == InitCodec /\ [][NextCodec]_vars

(***************************************************************************)
(* The job loop of main (main.rs): the start gate before each step         *)
(***************************************************************************)
MaxSteps == 2

\* a step of the job: Step::Gcode or Step::Bash with its wait_for_signal
StepConfigs == [kind : {"gcode", "bash"}, wait : BOOLEAN]

JobConfigs == UNION {[1..n -> StepConfigs] : n \in 1..MaxSteps}

\* step.wait_for_signal(i == 0)
WaitForSignal(step, first) == step.wait

\* poll_interrupt(reset = false, ..): cached trigger events are kept
KeepCached(c) == c

\* poll_interrupt(reset = true, ..): cached trigger events are discarded
DiscardCached(c) == FALSE

\* sequences the job loop is followed through
MaxPasses == 2

\* what a step of the job loop leaves alone outside the loop
jobFrame ==
    <<ctlVars, devVars, cfgVars, histVars, connVars, submitted, codecVars, auxVars, rpc>>

\* a job loop that does not test `running`: the sequence starts over for ever
JobLoopForever ==
    /\ jpc = "loop"
    /\ passes < MaxPasses
    /\ jpc' = "reach"
    /\ step_i' = 1
    /\ UNCHANGED <<steps, cached, edgeSince, passes>>
    /\ UNCHANGED <<jobFrame, wire, running, hpc>>

\* `while controller.running.load(..)`, then the for loop starts over
JobLoop ==
    /\ jpc = "loop"
    /\ passes < MaxPasses \/ ~running
    /\ IF running THEN jpc' = "reach" /\ step_i' = 1
                  ELSE jpc' = "done" /\ UNCHANGED step_i
    /\ UNCHANGED <<steps, cached, edgeSince, passes>>
    /\ UNCHANGED <<jobFrame, wire, running, hpc>>

\* the for loop reaches a step: `if step.wait_for_signal(i == 0)` it polls the
\* signal interrupt, discarding the cached events first
ReachStep ==
    /\ jpc = "reach"
    /\ edgeSince' = FALSE
    /\ IF WaitForSignal(steps[step_i], step_i = 1)
       THEN cached' = DiscardCached(cached) /\ jpc' = "poll"
       ELSE jpc' = "exec" /\ UNCHANGED cached
    /\ UNCHANGED <<steps, step_i, passes>>
    /\ UNCHANGED <<jobFrame, wire, running, hpc>>

\* a rising edge on the signal input (after its debounce): the event is cached
SignalEdge ==
    /\ jpc \in {"loop", "reach", "poll", "exec"}
    /\ cached' = TRUE
    /\ edgeSince' = TRUE
    /\ UNCHANGED <<steps, step_i, jpc, passes>>
    /\ UNCHANGED <<jobFrame, wire, running, hpc>>

\* poll_interrupt returns with the trigger event
PollReturn ==
    /\ jpc = "poll"
    /\ cached
    /\ cached' = FALSE
    /\ jpc' = "exec"
    /\ UNCHANGED <<steps, step_i, edgeSince, passes>>
    /\ UNCHANGED <<jobFrame, wire, running, hpc>>

\* the step executes (execute_gcode_step or execute_bash_step) and returns its result
ExecuteStep ==
    /\ jpc = "exec"
    /\ \E result \in {"Ok", "Err"} : jpc' = result
    /\ UNCHANGED <<steps, step_i, cached, edgeSince, passes>>
    /\ UNCHANGED <<jobFrame, wire, running, hpc>>

\* a job loop that logs the Err of a step and goes on with the sequence
MatchLenient ==
    /\ jpc \in {"Ok", "Err"}
    /\ IF step_i < Len(steps)
       THEN jpc' = "reach" /\ step_i' = step_i + 1 /\ UNCHANGED passes
       ELSE jpc' = "loop" /\ passes' = passes + 1 /\ UNCHANGED step_i
    /\ UNCHANGED <<steps, cached, edgeSince>>
    /\ UNCHANGED <<jobFrame, wire, running, hpc>>

\* `match result`: Err ends main with the error, Ok goes on to the next step, and
\* after the last step to the top of the while loop
MatchResult ==
    /\ jpc \in {"Ok", "Err"}
    /\ IF jpc = "Err" THEN jpc' = "failed" /\ UNCHANGED <<step_i, passes>>
       ELSE IF step_i < Len(steps)
       THEN jpc' = "reach" /\ step_i' = step_i + 1 /\ UNCHANGED passes
       ELSE jpc' = "loop" /\ passes' = passes + 1 /\ UNCHANGED step_i
    /\ UNCHANGED <<steps, cached, edgeSince>>
    /\ UNCHANGED <<jobFrame, wire, running, hpc>>

\* the ctrlc handler runs while the job loop does: it clears `running`
JobCtrlC ==
    /\ jpc \notin {"idle", "done", "failed"}
    /\ running
    /\ hpc = "idle"
    /\ running' = FALSE
    /\ hpc' = "sleep"
    /\ UNCHANGED <<jobVars, jobFrame, wire>>

\* the ctrlc handler, two seconds later, while the job loop runs or is over
JobCtrlCReset ==
    /\ jpc # "idle"
    /\ hpc = "sleep"
    /\ wire' = Append(wire, SoftReset)
    /\ hpc' = "done"
    /\ UNCHANGED <<jobVars, jobFrame, running>>

InitJob ==
    /\ ProgramInit
    /\ engine = "controller"
    /\ gcode = <<JOGX, G0X1>>
    /\ rx_buffer_size = 5
    /\ ~check
    /\ CodecIdle
    /\ steps \in JobConfigs
    /\ step_i = 1
    /\ jpc = "loop"
    /\ cached = FALSE
    /\ edgeSince = FALSE
    /\ passes = 0

NextJob ==
    \/ JobLoop
    \/ ReachStep
    \/ SignalEdge
    \/ PollReturn
    \/ ExecuteStep
    \/ MatchResult
    \/ JobCtrlC
    \/ JobCtrlCReset

SpecJob == InitJob /\ [][NextJob]_vars

\* the reader has panicked: its thread is gone
ReaderPanicked == kpc = "panicked"

\* C23: no line can crash a reader: a line the codec cannot classify, an `error:`
\* whose code is no u8 among them, becomes Message::Unknown and the reader goes on.
C23_NoLineCrashesReader ==
    /\ ~ReaderPanicked
    /\ (kpc = "parsed" /\ StartsWith(received, ErrorPrefix)
          /\ ParseU8(StripPrefix(received, ErrorPrefix)) < 0)
         => classified.kind = "Unknown"

(***************************************************************************)
(* Measures over the run                                                   *)
(***************************************************************************)
\* the capacity the flow control of the running engine is held to
RxCapacity == IF engine = "controller" THEN rx_buffer_size ELSE RX_LIMIT

\* sum of (len + 1) over the blocks on the wire the controller has not answered
Unacked ==
    LET blocks == WireBlocks(wire)
    IN  SumSeq([i \in 1..(Len(blocks) - devAcked) |-> Len(blocks[devAcked + i]) + 1])

\* the blocks among the written commands, in the order they were written
WrittenBlocks == SelectSeq(written, LAMBDA c : c.kind = "Gcode")

\* the id of the j-th block the controller received (0 when there is none)
BlockId(j) == IF j \in 1..Len(WrittenBlocks) THEN WrittenBlocks[j].id ELSE 0

\* the position of the command with this id in a list of commands (0 when absent)
Pos(list, id) ==
    IF \E i \in 1..Len(list) : list[i].id = id
    THEN CHOOSE i \in 1..Len(list) : list[i].id = id
    ELSE 0

\* buffered_stream has returned its response list, which the caller still holds
Returned ==
    /\ engine = "controller"
    /\ \/ pc \in {"c2_send", "failed", "skipped", "done"}
       \/ pc \in {"wfr_recv", "wfr_eval", "wfr_join"} /\ wfrFrom = "final"

\* sum of (len + 1) over the entries of the in-flight queue before the last one
BufferedBefore(queue) ==
    SumSeq([i \in 1..(Len(queue) - 1) |-> queue[i] + 1])

\* the bytes a command is to be written as: line and "\n", or the one raw byte
ExpectedBytes(cmd) ==
    IF cmd.kind = "Gcode" THEN AsBytes(cmd.text) \o <<LF>> ELSE <<cmd.byte>>

RECURSIVE ExpectedWire(_)
ExpectedWire(list) ==
    IF list = <<>> THEN <<>> ELSE ExpectedBytes(Head(list)) \o ExpectedWire(Tail(list))

\* buffered_stream waits in `receive` although every block written has been
\* answered and no Response is on its way
Starved ==
    /\ engine = "controller"
    /\ \/ pc = "bs_room" /\ MustWait(bytes_queued, rx_buffer_size)
       \/ pc = "bs_drain" /\ sent_count > received_count
    /\ recv_ch = <<>>
    /\ send_ch = <<>>
    /\ devProbes = 0
    /\ devAcked = Len(WireBlocks(wire))

\* a step of the send worker that writes a Realtime command
RealtimeWriteStep ==
    /\ Len(written') = Len(written) + 1
    /\ written'[Len(written')].kind = "Realtime"

(***************************************************************************)
(* Claims                                                                  *)
(***************************************************************************)
\* C1: in every reachable state of a stream, the sum of (len + 1) over the blocks
\* written to the transport and not yet answered by a Response is at most
\* RX_CAPACITY - 1 (the blocks being of the lengths a stream accepts, below
\* RX_CAPACITY - 1).
C1_UnackedWithinCapacity ==
    (\A i \in 1..Len(written) :
        written[i].kind = "Gcode" => Len(written[i].text) < RxCapacity - 1) =>
        Unacked <= RxCapacity - 1

\* C2: when a stream call with no Realtime interleaving returns, its response list
\* has one entry per submitted block, and the k-th entry is the controller's
\* Response to the k-th submitted block.
C2_ResponsesMatchSubmissions ==
    (Returned /\ \A i \in 1..Len(taken) : taken[i].kind = "Gcode") =>
        /\ Len(responses) = Len(submitted)
        /\ \A k \in 1..Len(responses) :
              /\ responses[k].index = k
              /\ k <= Len(submitted)
              /\ BlockId(responses[k].for) = submitted[k]

\* C3: a line the controller pushes (a status report, a [PRB:...] probe result) does
\* not consume an in-flight slot: every entry of the response list, each of which
\* popped the in-flight queue and raised the received count, is the answer to a block.
C3_PushTakesNoSlot ==
    \A i \in 1..Len(responses) : responses[i].for # 0

\* C4: a Realtime command submitted after block A and before block B is written
\* after A and before B: of two commands handed over in one order, a Gcode and a
\* Realtime, the later one is not written unless the earlier one was written before.
C4_RealtimeBetweenBlocks ==
    \A i, j \in 1..Len(taken) :
        (i < j /\ taken[i].kind # taken[j].kind /\ Pos(written, taken[j].id) # 0) =>
            /\ Pos(written, taken[i].id) # 0
            /\ Pos(written, taken[i].id) < Pos(written, taken[j].id)

\* C5: a stream does not deadlock on flow control: with one Response per block
\* written, the stream call neither waits for a Response that cannot come nor
\* gives up with an error.
C5_StreamNotStuck == ~Starved /\ cpc # "failed"

\* C6: the flow-control decision is exact at the boundary: with buffered the sum
\* of (len + 1) over the blocks in flight, a block of length L is sent without
\* waiting when buffered + L + 1 = RX_CAPACITY - 1 and is held back when
\* buffered + L + 1 = RX_CAPACITY (L being a length a stream accepts, below
\* RX_CAPACITY - 1).
C6_BoundaryExact ==
    (/\ engine = "controller"
     /\ pc = "bs_room"
     /\ bytes_queued # <<>>
     /\ bytes_queued[Len(bytes_queued)] < rx_buffer_size - 1) =>
        LET total == BufferedBefore(bytes_queued) + bytes_queued[Len(bytes_queued)] + 1
        IN  /\ total = rx_buffer_size - 1 => ~MustWait(bytes_queued, rx_buffer_size)
            /\ total = rx_buffer_size => MustWait(bytes_queued, rx_buffer_size)

\* C7: a block of length RX_CAPACITY - 1 or more fails its submitter with
\* OversizedBlock: it is never written, and the stream call does not wait for
\* Responses that cannot come to make room for it.
C7_OversizedBlockRejected ==
    /\ \A i \in 1..Len(written) :
          written[i].kind = "Gcode" => Len(written[i].text) < RxCapacity - 1
    /\ ~(Starved /\ pc = "bs_room" /\ Len(LineOf(gcode[lineIdx])) >= rx_buffer_size - 1)

\* C8: a Response that answers no block of the stream (the ok of a `$C` sent outside
\* the stream) is discarded: every answer in the stream's response list is the
\* answer to a block the stream submitted.
C8_StrayResponseDiscarded ==
    \A i \in 1..Len(responses) :
        responses[i].for # 0 =>
            \E k \in 1..Len(submitted) : submitted[k] = BlockId(responses[i].for)

\* C9: the bytes on the wire are the concatenation of line and "\n" for each
\* written block and of the single raw byte for each written Realtime command.
C9_WireIsCommandBytes == wire = ExpectedWire(written)

\* C10: writing a Realtime command leaves the flow-control accounting unchanged:
\* the in-flight queue, the sent and received counters and the response list are
\* the same before and after the write.
C10_RealtimeLeavesAccounting ==
    [][RealtimeWriteStep =>
          UNCHANGED <<bytes_queued, sent_count, received_count, responses, sent>>]_vars

\* a Realtime command was the last one written while blocks are in flight
C10_Witness ==
    /\ engine = "controller"
    /\ written # <<>>
    /\ written[Len(written)].kind = "Realtime"
    /\ bytes_queued # <<>>
    /\ sent_count > received_count

\* C11: blocks submitted from one thread are written in submission order, also
\* when Realtime commands are interleaved: no block is written twice, and when a
\* command has been written, every block handed over before it has been written
\* before it.
C11_BlocksInSubmissionOrder ==
    /\ \A i, j \in 1..Len(written) : written[i].id = written[j].id => i = j
    /\ \A i, j \in 1..Len(taken) :
          (i < j /\ taken[i].kind = "Gcode" /\ Pos(written, taken[j].id) # 0) =>
              /\ Pos(written, taken[i].id) # 0
              /\ Pos(written, taken[i].id) < Pos(written, taken[j].id)

\* C12: each pair (index, Response) of a stream's response list carries the
\* 1-based submission index of the block the Response answers (for each entry that
\* is the answer to a block).
C12_IndexIsSubmissionIndex ==
    \A k \in 1..Len(responses) :
        responses[k].for # 0 =>
            /\ responses[k].index \in 1..Len(submitted)
            /\ submitted[responses[k].index] = BlockId(responses[k].for)

\* the check phase of the step has computed its error list
CheckEvaluated ==
    /\ engine = "controller"
    /\ check
    /\ \/ pc \in {"c2_send", "failed", "skipped"}
       \/ phase = "stream" /\ pc \notin {"step", "c1_send"}

\* the answers of the controller to the blocks of the job that are errors, each
\* with the 1-based index of its block
ExpectedErrors ==
    LET answer(k) == Parsed[AnswerTo(AsBytes(LineOf(gcode[k])))]
        all == [k \in 1..Len(gcode) |-> [index |-> k, resp |-> answer(k)]]
    IN  SelectSeq(all, LAMBDA e : e.resp.tag = "Error")

\* C13: the error list computed by check mode is the subset of the streamed
\* blocks' Responses that are Error, each with the 1-based submission index of its
\* block, whatever the Responses to the two `$C` toggles.
C13_ErrorListIsErrorSubset ==
    CheckEvaluated =>
        /\ Len(errors) = Len(ExpectedErrors)
        /\ \A i \in 1..Len(errors) :
              /\ errors[i].index = ExpectedErrors[i].index
              /\ errors[i].resp = ExpectedErrors[i].resp

\* the positions of the `$C` toggles among the blocks the controller received
TogglePositions ==
    {i \in 1..Len(WrittenBlocks) : WrittenBlocks[i].text = CheckToggle}

\* the step has left its check phase, to fail or to stream
CheckLeft ==
    /\ engine = "controller"
    /\ check
    /\ \/ pc \in {"failed", "skipped"}
       \/ phase = "stream" /\ pc \notin {"step", "c1_send"}

\* C14: in check mode no block of the job is submitted before the Ok for the first
\* `$C` has been received, and the step does not leave the check phase before the Ok
\* for the second `$C` has been received.
C14_TogglesAcknowledged ==
    /\ (engine = "controller" /\ check /\ submitted # <<>>) => devAcked >= 1
    /\ CheckLeft =>
          /\ Cardinality(TogglePositions) = 2
          /\ \A i \in TogglePositions : devAcked >= i

\* the step is in its streaming phase: the buffered_stream call that runs the job,
\* or what follows it
Streaming ==
    /\ engine = "controller"
    /\ phase = "stream"
    /\ pc \notin {"step", "c1_send", "failed", "skipped"}

\* C15: when the check phase of a step yields a non-empty error list, the
\* streaming phase is not entered and no block of the job is written after the
\* second `$C`; streaming is entered only without check mode or after a check with
\* an empty error list.
C15_NoStreamingAfterErrors ==
    /\ Streaming => (~check \/ Len(errors) = 0)
    /\ (engine = "controller" /\ check /\ Len(errors) > 0) =>
          \A i \in TogglePositions : \A j \in TogglePositions :
              i < j => Len(WrittenBlocks) = j

\* the check phase found errors and the step ended without streaming
C15_Witness ==
    /\ engine = "controller"
    /\ check
    /\ Len(errors) > 0
    /\ pc \in {"failed", "skipped"}
    /\ Cardinality(TogglePositions) = 2

\* the step executor has handed its result to the job loop after a check
StepEnded ==
    /\ engine = "controller"
    /\ check
    /\ pc \in {"failed", "skipped", "done"}

\* C16: when the check phase of a step finds at least one Error response, the
\* step ends in the Failed outcome: the executor returns an error (GcodeError) to
\* the job loop, never a success value.
C16_CheckErrorsFailStep ==
    (StepEnded /\ Len(errors) > 0) => pc = "failed"

\* a streaming step has reported completion to the job loop
StepCompleted == engine \in {"controller", "task"} /\ pc = "done"

\* the wait that ends the step holds a Report it received after the last block of
\* the step was submitted
IdleAfterLastBlock ==
    /\ wfrFrom = "final"
    /\ got.kind = "Push"
    /\ got.tag = "Idle"
    /\ Len(submitted) = Len(gcode)

\* C17: a streaming step reports completion only after a status Report with
\* status Idle was received after the last block of the step was submitted.
C17_DoneOnlyAfterIdle ==
    StepCompleted => IdleAfterLastBlock

\* the predicate of the running wait_for_report call holds of the Report
WaitPredicate(report) ==
    IF wfrFrom = "jog" THEN JogPredicate(report) ELSE IdlePredicate(report)

\* what wait_for_report does with the Report delivered to it: a Report that fails
\* the predicate sends it back to receive, one that satisfies it ends the wait,
\* and the Report it returns with is that one
WaitStep ==
    /\ (engine = "controller" /\ pc = "wfr_eval" /\ pc' # "wfr_eval") =>
          /\ got' = got
          /\ IF WaitPredicate(got) THEN pc' = "wfr_join" ELSE pc' = "wfr_recv"
    /\ (engine = "controller" /\ pc = "wfr_join") => got' = got

C19_StoppedWaitIsCancelled ==
    (engine = "controller" /\ ~running) => pc # "wfr_err"

\* a normal (non-check) buffered_stream call has returned Ok(responses)
StreamReturned ==
    /\ engine = "controller"
    /\ ~check
    /\ phase = "stream"
    /\ \/ pc = "done"
       \/ pc \in {"wfr_recv", "wfr_eval", "wfr_join"} /\ wfrFrom = "final"

\* C20: an Error response during a normal stream is data: the stream submits the
\* remaining blocks, returns success, and its response list holds the Error at
\* the position of the offending block.
C20_ErrorIsData ==
    /\ (engine = "controller" /\ ~check) => pc # "error"
    /\ StreamReturned =>
          /\ Len(submitted) = Len(gcode)
          /\ \A k \in 1..Len(gcode) :
                Parsed[AnswerTo(AsBytes(LineOf(gcode[k])))].tag = "Error" =>
                    /\ k <= Len(responses)
                    /\ responses[k].resp = Parsed[AnswerTo(AsBytes(LineOf(gcode[k])))]

\* the write of a block the send worker took has failed
WriteFailed ==
    \E i \in 1..Len(taken) :
        taken[i].kind = "Gcode" /\ Pos(written, taken[i].id) = 0

\* C21: a transport write error while a block is sent is fatal for the step: the
\* caller of the stream observes an error, and never keeps waiting for the
\* Response of a block whose write failed.
C21_WriteErrorIsFatal ==
    (engine = "controller" /\ WriteFailed /\ \A k \in 1..Len(gcode) : gcode[k] # LONG) =>
        ~Starved

\* the executor is blocked waiting for a Response or for a Report
CallerBlocked ==
    \/ pc = "bs_room" /\ MustWait(bytes_queued, rx_buffer_size)
    \/ pc = "bs_drain" /\ sent_count > received_count
    \/ pc = "wfr_recv"

\* C22: when the peer closes the transport the reader worker terminates and its
\* channel closes, so a caller blocked waiting for a Response or a Report
\* eventually returns with an error.
C22_EofEndsReaderAndCallers ==
    /\ (engine = "controller" /\ rpc = "eof") ~> (rpc = "off")
    /\ (engine = "controller" /\ rpc = "eof" /\ CallerBlocked /\ recv_ch = <<>>)
          ~> (pc = "error")


\* C24: only the line that is exactly `ok` is classified as Response::Ok; a line that
\* merely contains ok is no Response (so it frees no buffer space).
C24_OnlyExactOkIsOk ==
    (kpc \in {"parsed", "shown"} /\ received # <<"o","k">>) =>
        ~(classified.kind = "Response" /\ classified.tag = "Ok")


\* the variant the protocol assigns to a canonical line
CanonicalVariant(line, m) ==
    /\ line = <<"o","k">> => (m.kind = "Response" /\ m.tag = "Ok")
    /\ \A n \in CodeSet :
           /\ line = ErrorPrefix \o U8Text(n) =>
                  (m.kind = "Response" /\ m.tag = "Error" /\ m.code = n)
           /\ line = AlarmPrefix \o U8Text(n) =>
                  (m.kind = "Push" /\ m.tag = "Alarm" /\ m.code = n)
    /\ line = IdleReportLine => (m.kind = "Push" /\ m.tag = "Report")
    /\ line = PrbFeedbackLine => (m.kind = "Push" /\ m.tag = "Feedback")

\* C28: in the Connection engine's codec every canonical line (ok, error:N and ALARM:N
\* for N in 0..=255, the Idle report, the PRB feedback) is classified as its variant,
\* and formatting the message gives back the line.
C28_CanonicalRoundTrip ==
    (codec = "connection_message" /\ received \in CanonicalLines) =>
        /\ kpc \in {"parsed", "shown"} => CanonicalVariant(received, classified)
        /\ kpc = "shown" => shown = received

C28_Witness ==
    /\ codec = "connection_message"
    /\ kpc = "shown"
    /\ received = ErrorPrefix \o U8Text(MaxCode)
    /\ classified.code = MaxCode
    /\ shown = received


\* a probe callback has submitted JogCancel and the send worker has not taken it
JogCancelPending ==
    \E i \in 1..Len(prio_ch) : prio_ch[i].cmd.byte = JogCancel

\* the step writes a Block to the transport
BlockWritten ==
    /\ Len(written') = Len(written) + 1
    /\ written'[Len(written')].kind = "Gcode"

\* C25: the JogCancel a probe edge submits on the priority path is written ahead of
\* every Block the send worker has not yet taken: no Block is written while a
\* submitted JogCancel waits.
C25_JogCancelAheadOfBlocks ==
    [][(engine = "controller" /\ BlockWritten) => ~JogCancelPending]_vars


\* C26: a step configured to wait for the start signal begins executing only after a
\* rising edge on the signal input was seen since the job loop reached the step.
C26_StartGate ==
    (jpc = "exec" /\ steps[step_i].wait) => edgeSince

C26_Witness ==
    /\ jpc = "exec"
    /\ step_i = 2
    /\ steps[step_i].wait
    /\ edgeSince
    /\ ~cached


\* the step has returned to the job loop
StepOver == pc \in {"done", "error", "failed", "skipped"}

\* both workers and the polling thread have ended
WorkersOver == spc = "off" /\ rpc = "off" /\ ppc = "off"

\* C27: once the shutdown flag is cleared, every blocked operation of the streaming
\* driver ends (buffered_stream blocked on a submission or on a Response returns, the
\* stream closure of the task returns) and no worker loop runs on.
C27_ShutdownTerminates ==
    /\ (engine = "controller" /\ ~running) ~> (StepOver /\ WorkersOver)
    /\ (engine = "task" /\ ~running /\ pc = "t_send" /\ lineIdx <= Len(gcode)) ~> StepOver

C27_Witness ==
    /\ engine = "controller"
    /\ ~running
    /\ pc = "error"
    /\ WorkersOver
    /\ lineIdx <= Len(gcode)


\* the stream closure is at a Block and the shutdown flag is cleared
StopObserved ==
    engine = "task" /\ ~running /\ pc = "t_send" /\ lineIdx <= Len(gcode)

\* C30: a streaming driver that observes the shutdown flag cleared submits no further
\* Block, and the step ends Cancelled, which is a success value and no error.
C30_StopIsSuccess ==
    [][StopObserved => (written' = written /\ pc' \notin {"failed", "error"})]_vars


(***************************************************************************)
(* The output sink of execute_gcode_step (steps/gcode.rs)                  *)
(***************************************************************************)
RECURSIVE StripTrailingZeros(_)
StripTrailingZeros(s) ==
    IF s # <<>> /\ s[Len(s)] = "0" THEN StripTrailingZeros(SubSeq(s, 1, Len(s) - 1)) ELSE s

\* `{}` of the f64 parsed from the text: the shortest decimal that reads back
FormatF64(text) ==
    LET parts == Split(text, ".")
        frac == IF Len(parts) > 1 THEN StripTrailingZeros(parts[2]) ELSE <<>>
    IN  IF frac = <<>> THEN parts[1] ELSE parts[1] \o <<".">> \o frac

\* the Probe responses of a response list, in order
ProbesOf(list) ==
    SelectSeq(list, LAMBDA r : r.resp.kind = "Response" /\ r.resp.tag = "Probe")

\* writeln!(writer, "{},{},{}", coords.0, coords.1, coords.2) for every Probe
SinkOf(list) ==
    [k \in 1..Len(ProbesOf(list)) |->
        LET coords == ProbesOf(list)[k].resp.mpos
        IN  FormatF64(coords[1]) \o <<",">> \o FormatF64(coords[2]) \o <<",">>
                \o FormatF64(coords[3])]

\* execute_gcode_step has written the sink: buffered_stream has returned the
\* responses of the stream
SinkWritten ==
    /\ engine = "controller"
    /\ phase = "stream"
    /\ \/ pc = "done"
       \/ pc \in {"wfr_recv", "wfr_eval", "wfr_join", "wfr_none", "wfr_err"} /\ wfrFrom = "final"

HeaderLine == <<"x", ",", "y", ",", "z">>

\* the first three coordinates of a PRB line, as the controller sent them
PrbPoint(line) ==
    LET coords == Split(Split(Slice(Trim(line), 6, Len(Trim(line)) - 1), ":")[1], ",")
    IN  coords[1] \o <<",">> \o coords[2] \o <<",">> \o coords[3]

\* C29: with an output sink, after a stream the sink holds the header `x,y,z` once
\* and then one `x,y,z` line per PRB the stream received, in arrival order, with the
\* first three coordinates as sent.
C29_SinkHoldsHeaderAndPoints ==
    (SinkWritten /\ ProbesOf(responses) # <<>>) =>
        SinkOf(responses) =
            <<HeaderLine>> \o [k \in 1..Len(ProbesOf(responses)) |->
                                  PrbPoint(ProbesOf(responses)[k].resp.raw)]


\* the send worker's write of a Block fails in this step
BlockWriteFails ==
    /\ engine = "connection"
    /\ wpc = "dispatch"
    /\ wpc' = "closed"
    /\ queued # <<>>
    /\ Head(queued).kind = "Gcode"
    /\ Fits(BufferedBytes(sent), Head(queued).text)
    /\ wire' = wire

ReportUnawaited == devReported' = devReported + 1 /\ pc # "wfr_recv"

\* the receive worker reads the answer to a block
ResponseRead == devAcked' = devAcked + 1

\* C32: a Push never blocks the receive worker: a Report that finds no receiver
\* waiting is dropped, and every Response read after it still goes to the response
\* channel, in arrival order.
C32_PushNeverBlocksReader ==
    [][/\ ReportUnawaited =>
            (dropped' = dropped + 1 /\ UNCHANGED <<got, pc, recv_ch, rpc>>)
       /\ ResponseRead =>
            (/\ Len(recv_ch') = Len(recv_ch) + 1
             /\ SubSeq(recv_ch', 1, Len(recv_ch)) = recv_ch
             /\ recv_ch'[Len(recv_ch')].for = devAcked + 1)]_vars

C32_Witness ==
    /\ dropped > 0
    /\ recv_ch # <<>>
    /\ recv_ch[Len(recv_ch)].for = 2
    /\ devReported = 2


\* the receive loop of wait_for_report has ended
LoopEnded == engine = "controller" /\ pc \in {"wfr_join", "wfr_none", "wfr_err"}

\* C33: whenever the receive loop of wait_for_report ends, the polling task stops
\* and wait_for_report returns; after the return the call submits no StatusQuery.
C33_WaitReturnsAndPollingStops ==
    /\ LoopEnded ~> (ppc = "off" /\ ~LoopEnded)
    /\ [][(~LoopEnded /\ pc # "wfr_recv" /\ pc # "wfr_eval") => polls' = polls]_vars


\* the ctrlc handler writes the Reset byte in this step
ResetWritten == engine = "controller" /\ hpc = "sleep" /\ hpc' = "done"

\* C34: on shutdown `running` is cleared before the Reset byte 0x18 is written,
\* and the Reset byte is the last byte the host writes: the send worker writes no
\* Block and no Realtime byte after it.
C34_ResetIsLastByte ==
    [][/\ ResetWritten => (~running /\ wire' = Append(wire, SoftReset))
       /\ (engine = "controller" /\ hpc = "done") => wire' = wire]_vars


\* wait_for_report takes a Report from the push channel in this step
ReportTaken == engine = "controller" /\ pc # "wfr_eval" /\ pc' = "wfr_eval"

\* C35: wait_for_report never returns a stale Report: the Report it evaluates is
\* one the receive worker reads while the call is blocked in recv(), and a Report
\* read at any other moment is gone for good.
C35_NoStaleReport ==
    [][/\ ReportTaken =>
            (/\ pc = "wfr_recv"
             /\ devReported' = devReported + 1
             /\ got' \in {Parsed[line] : line \in ReportLines}
             /\ dropped' = dropped)
       /\ (pc' = "wfr_join" /\ pc # "wfr_join") => (pc = "wfr_eval" /\ got' = got)]_vars

C35_Witness ==
    /\ engine = "controller"
    /\ wfrFrom = "final"
    /\ pc = "wfr_recv"
    /\ dropped = 1
    /\ devReported = 2
    /\ polls = 3
    /\ WireQueries(wire) = 3


\* the suffix that marks an interruptible jog in the job file
InSuffix == <<" ","I","N">>

\* buffered_stream goes on from an interruptible jog to the line after it
PastJog ==
    /\ engine = "controller"
    /\ lineIdx <= Len(gcode)
    /\ IsInterruptible(gcode[lineIdx])
    /\ lineIdx' = lineIdx + 1

\* what buffered_stream has handed to the send worker for line k of the pass
HandedOver(k) == send_ch # <<>> /\ lineIdx = k /\ pc = "bs_send"

\* C36: in buffered_stream an interruptible jog `$J=... IN` is sent without its
\* ` IN` suffix, and no later line of the job is sent until a Report with status
\* Idle and a machine position has been received or `running` is cleared.
C36_JogHoldsTheStream ==
    /\ [](engine = "controller" =>
            \A k \in 1..Len(gcode) :
               (IsInterruptible(gcode[k]) /\ HandedOver(k)) =>
                  (/\ send_ch[1].text \o InSuffix = Trim(gcode[k])
                   /\ ~EndsWith(send_ch[1].text, InSuffix)))
    /\ [][PastJog =>
            (/\ send_ch = <<>>
             /\ send_ch' = <<>>
             /\ \/ (pc = "wfr_join" /\ got.kind = "Push" /\ got.tag = "Idle"
                       /\ got.mpos # <<>>)
                \/ ~running)]_vars

\* the line after the jog has been written, after an Idle Report with a position
C36_Witness ==
    /\ engine = "controller"
    /\ running
    /\ gcode = <<JOGX, G0X1>>
    /\ lineIdx = 2
    /\ pc = "bs_send"
    /\ got.kind = "Push"
    /\ got.tag = "Idle"
    /\ got.mpos # <<>>
    /\ Len(written) >= 1
    /\ written[1].kind = "Gcode"
    /\ written[1].text = <<"$","J","=","X">>


\* the `$C` commands the send worker has taken from the executor
TogglesSent == SelectSeq(taken, LAMBDA c : c.kind = "Gcode" /\ c.text = CheckToggle)

\* C37: if the first `$C` of a check phase was sent, the second `$C` is sent before
\* the step returns, on every path: a returned step has toggled check mode twice
\* or not at all.
C37_CheckModeToggledBack ==
    (engine = "controller" /\ StepOver /\ Len(TogglesSent) >= 1) => Len(TogglesSent) = 2


\* C38: the job loop executes the configured steps strictly in configuration
\* order, one at a time, and a step that returns an error aborts the job: no later
\* step is started and the program exits with that error.
C38_StepsInOrderErrAborts ==
    [][/\ (jpc' = "exec" /\ jpc # "exec") => (jpc \in {"reach", "poll"} /\ step_i' = step_i)
       /\ (jpc' = "reach" /\ jpc # "reach") =>
             \/ (jpc = "Ok" /\ step_i < Len(steps) /\ step_i' = step_i + 1)
             \/ (jpc = "loop" /\ step_i' = 1)
       /\ step_i' # step_i => jpc' = "reach"
       /\ (jpc = "Err" /\ jpc' # jpc) => (jpc' = "failed" /\ step_i' = step_i)
       /\ jpc = "failed" => (jpc' = "failed" /\ step_i' = step_i)]_vars

\* the first of two steps has failed, and the job is over
C38_Witness ==
    /\ jpc = "failed"
    /\ Len(steps) = 2
    /\ step_i = 1
    /\ passes = 1


\* C39: as long as `running` is set and no step fails, the job loop starts the whole
\* sequence again from the first step after the last step completes; once it has
\* found `running` cleared at the top of the loop the sequence is not started again.
C39_SequenceRestartsWhileRunning ==
    [][/\ (jpc = "Ok" /\ step_i = Len(steps) /\ jpc' # jpc) =>
             (jpc' = "loop" /\ passes' = passes + 1)
       /\ (jpc = "loop" /\ jpc' # jpc) =>
             IF running THEN jpc' = "reach" /\ step_i' = 1 ELSE jpc' = "done"
       /\ jpc = "done" => (jpc' = "done" /\ step_i' = step_i /\ passes' = passes)]_vars

\* the first step runs again after a whole sequence of two steps
C39_Witness ==
    /\ jpc = "exec"
    /\ running
    /\ Len(steps) = 2
    /\ step_i = 1
    /\ passes = 1


\* Controller::stop has returned
StopReturned == stop_pc = "returned"

\* the transport and both workers, as the controller at the other end sees them
TransportUse == <<wire, devAcked, devReported, devProbes, spc, rpc, written, taken>>

\* C40: Controller::stop clears `running`, joins the send worker and the receive
\* worker and then drops both channel pairs: it returns in the end, after it has
\* returned no worker writes to or reads from the transport, and a second stop or
\* the Drop after it joins nothing and changes nothing.
C40_StopJoinsBothWorkers ==
    /\ (stop_pc = "join_send") ~> StopReturned
    /\ []((stop_pc # "idle") => ~running)
    /\ [](StopReturned => (spc = "off" /\ rpc = "off" /\ ~channels /\ ~serial_handles))
    /\ [][StopReturned =>
            (/\ TransportUse' = TransportUse
             /\ UNCHANGED <<stop_pc, serial_handles, channels, running>>)]_vars

\* stop has returned after a step that wrote to the transport, and it was called
\* again and the Controller was dropped
C40_Witness ==
    /\ StopReturned
    /\ stops = MaxStops
    /\ pc = "done"
    /\ written # <<>>
    /\ ~channels

====
